---- MODULE Spec2Model ----
(***************************************************************************)
(* Model of the Mermaid ER diagram parser (src/src/parser/index.ts).       *)
(* A line of text is a sequence of one-character strings; the regular      *)
(* expressions of PATTERNS are evaluated on these sequences by a small     *)
(* backtracking matcher with JavaScript's priorities (greedy quantifiers,  *)
(* alternatives from left to right).                                       *)
(***************************************************************************)
EXTENDS Integers, Sequences, FiniteSets, TLC

\* Longest input, in lines, that the model feeds to parseERDiagram.
MaxLines == 5
\* Longest cardinality token that the model passes to parseCardinality.
MaxTokenLen == 3
\* Longest entity name that the model passes to cleanEntityName.
MaxNameLen == 5

(***************************************************************************)
(* Optional values: undefined / null is the empty sequence, a present      *)
(* value v is the one-element sequence <<v>>.                              *)
(***************************************************************************)
Undefined == <<>>
Some(v) == <<v>>

(***************************************************************************)
(* Characters                                                              *)
(***************************************************************************)
LowerSeq == <<"a", "b", "c", "d", "e", "f", "g", "h", "i", "j", "k", "l", "m",
              "n", "o", "p", "q", "r", "s", "t", "u", "v", "w", "x", "y", "z">>
UpperSeq == <<"A", "B", "C", "D", "E", "F", "G", "H", "I", "J", "K", "L", "M",
              "N", "O", "P", "Q", "R", "S", "T", "U", "V", "W", "X", "Y", "Z">>
Lower == {LowerSeq[k] : k \in 1..26}
Upper == {UpperSeq[k] : k \in 1..26}
Letter == Lower \cup Upper
Digit == {"0", "1", "2", "3", "4", "5", "6", "7", "8", "9"}
Ws == {" ", "\t"}
Punct == {"_", "-", "[", "]", "(", ")", "{", "}", "|", ".", ":", ",", "*",
          "%", "?", "\"", "\\"}
Alphabet == Letter \cup Digit \cup Ws \cup Punct

toUpperCaseChar(c) ==
    IF c \in Lower THEN UpperSeq[CHOOSE k \in 1..26 : LowerSeq[k] = c] ELSE c
toLowerCaseChar(c) ==
    IF c \in Upper THEN LowerSeq[CHOOSE k \in 1..26 : UpperSeq[k] = c] ELSE c
toUpperCase(s) == [k \in 1..Len(s) |-> toUpperCaseChar(s[k])]
toLowerCase(s) == [k \in 1..Len(s) |-> toLowerCaseChar(s[k])]

(***************************************************************************)
(* Regular expressions                                                     *)
(***************************************************************************)
Eps == [op |-> "eps"]
Cls(S) == [op |-> "cls", set |-> S]
Cat(a, b) == [op |-> "cat", a |-> a, b |-> b]
Alt(a, b) == [op |-> "alt", a |-> a, b |-> b]
Star(a) == [op |-> "star", a |-> a]
Plus(a) == Cat(a, Star(a))
Opt(a) == Alt(a, Eps)
Not(S) == Cls(Alphabet \ S)

RECURSIVE Lit(_)
Lit(s) == IF s = <<>> THEN Eps ELSE Cat(Cls({Head(s)}), Lit(Tail(s)))

\* a literal under the i flag
RECURSIVE LitI(_)
LitI(s) ==
    IF s = <<>> THEN Eps
    ELSE Cat(Cls({toLowerCaseChar(Head(s)), toUpperCaseChar(Head(s))}), LitI(Tail(s)))

RECURSIVE AltN(_)
AltN(rs) == IF Len(rs) = 1 THEN rs[1] ELSE Alt(rs[1], AltN(Tail(rs)))

\* Ends(re, s, i): the positions at which a match of re starting at s[i] can
\* end (exclusive), in the order in which a backtracking matcher tries them.
RECURSIVE Ends(_, _, _), EndsFrom(_, _, _, _)
Ends(re, s, i) ==
    CASE re.op = "eps" -> <<i>>
      [] re.op = "cls" -> IF i <= Len(s) /\ s[i] \in re.set THEN <<i + 1>> ELSE <<>>
      [] re.op = "cat" -> EndsFrom(re.b, s, Ends(re.a, s, i), 1)
      [] re.op = "alt" -> Ends(re.a, s, i) \o Ends(re.b, s, i)
      [] re.op = "star" ->
            EndsFrom(re, s, SelectSeq(Ends(re.a, s, i), LAMBDA e : e > i), 1) \o <<i>>
EndsFrom(re, s, starts, k) ==
    IF k > Len(starts) THEN <<>>
    ELSE Ends(re, s, starts[k]) \o EndsFrom(re, s, starts, k + 1)

\* MatchFrom(parts, k, s, i): match parts[k..] against s[i..] up to the end of
\* s; Undefined, or Some(the end position of each part) of the first match.
RECURSIVE MatchFrom(_, _, _, _), TryEnds(_, _, _, _, _)
MatchFrom(parts, k, s, i) ==
    IF k > Len(parts) THEN (IF i = Len(s) + 1 THEN Some(<<>>) ELSE Undefined)
    ELSE TryEnds(parts, k, s, Ends(parts[k], s, i), 1)
TryEnds(parts, k, s, ends, j) ==
    IF j > Len(ends) THEN Undefined
    ELSE LET r == MatchFrom(parts, k + 1, s, ends[j])
         IN  IF r # Undefined THEN Some(<<ends[j]>> \o r[1])
             ELSE TryEnds(parts, k, s, ends, j + 1)

\* an anchored match ^parts$
Match(parts, s) == MatchFrom(parts, 1, s, 1)
Test(parts, s) == Match(parts, s) # Undefined
\* the text matched by part k of a match m (bounds of the parts)
Group(s, m, k) == SubSeq(s, IF k = 1 THEN 1 ELSE m[1][k - 1], m[1][k] - 1)
\* the first of several anchored patterns that matches: [v |-> index, m |-> match]
RECURSIVE FirstMatch(_, _, _)
FirstMatch(variants, s, v) ==
    IF v > Len(variants) THEN Undefined
    ELSE LET m == Match(variants[v], s)
         IN  IF m # Undefined THEN Some([v |-> v, m |-> m])
             ELSE FirstMatch(variants, s, v + 1)

(***************************************************************************)
(* PATTERNS                                                                *)
(***************************************************************************)
WsStar == Star(Cls(Ws))
WsPlus == Plus(Cls(Ws))
IdRest == Letter \cup Digit \cup {"_", "-"}
\* [a-zA-Z_][a-zA-Z0-9_-]*|\\"[^"]+\\"
EntityNameRe ==
    Alt(Cat(Cls(Letter \cup {"_"}), Star(Cls(IdRest))),
        Cat(Lit(<<"\\", "\"">>), Cat(Plus(Not({"\""})), Lit(<<"\\", "\"">>))))

ER_DIAGRAM_START == <<WsStar, LitI(<<"e", "r", "D", "i", "a", "g", "r", "a", "m">>), WsStar>>

DIRECTION ==
    <<WsStar, LitI(<<"d", "i", "r", "e", "c", "t", "i", "o", "n">>), WsPlus,
      AltN(<<LitI(<<"T", "B">>), LitI(<<"B", "T">>), LitI(<<"L", "R">>), LitI(<<"R", "L">>)>>),
      WsStar>>

\* variant 1 carries the optional alias group, variant 2 omits it
ENTITY_BLOCK_START ==
    << <<WsStar, EntityNameRe, Cat(WsStar, Lit(<<"[">>)), Plus(Not({"]"})), Lit(<<"]">>),
         Cat(WsStar, Cat(Lit(<<"{">>), WsStar))>>,
       <<WsStar, EntityNameRe, Cat(WsStar, Cat(Lit(<<"{">>), WsStar))>> >>

ENTITY_BLOCK_END == <<WsStar, Lit(<<"}">>), WsStar>>

KeyRe == AltN(<<Lit(<<"P", "K">>), Lit(<<"F", "K">>), Lit(<<"U", "K">>)>>)
KeysRe == Cat(KeyRe, Star(Cat(WsStar, Cat(Lit(<<",">>), Cat(WsStar, KeyRe)))))
AttrTypeRe == Cat(Cls(Letter), Star(Cls(Letter \cup Digit \cup {"_", "-", "[", "]", "(", ")"})))
AttrNameRe == Cat(Opt(Lit(<<"*">>)), Cat(Cls(Letter \cup {"_"}), Star(Cls(IdRest))))
\* variants: keys and comment, keys only, comment only, neither
ATTRIBUTE ==
    << <<WsStar, AttrTypeRe, WsPlus, AttrNameRe, WsPlus, KeysRe,
         Cat(WsPlus, Lit(<<"\"">>)), Star(Not({"\""})), Lit(<<"\"">>), WsStar>>,
       <<WsStar, AttrTypeRe, WsPlus, AttrNameRe, WsPlus, KeysRe, WsStar>>,
       <<WsStar, AttrTypeRe, WsPlus, AttrNameRe,
         Cat(WsPlus, Lit(<<"\"">>)), Star(Not({"\""})), Lit(<<"\"">>), WsStar>>,
       <<WsStar, AttrTypeRe, WsPlus, AttrNameRe, WsStar>> >>

LeftCardRe ==
    AltN(<<Lit(<<"|", "o">>), Lit(<<"o", "|">>), Lit(<<"|", "|">>), Lit(<<"}", "|">>),
           Lit(<<"}", "o">>), Lit(<<"o", "{">>), Lit(<<"|", "{">>)>>)
RightCardRe ==
    AltN(<<Lit(<<"o", "|">>), Lit(<<"o", "{">>), Lit(<<"|", "|">>), Lit(<<"|", "o">>),
           Lit(<<"|", "{">>), Lit(<<"{", "|">>), Lit(<<"{", "o">>)>>)
RELATIONSHIP ==
    <<WsStar, EntityNameRe, WsStar, LeftCardRe,
      Alt(Lit(<<"-", "-">>), Lit(<<".", ".">>)), RightCardRe, WsStar, EntityNameRe,
      Cat(WsStar, Cat(Lit(<<":">>), Cat(WsStar, Opt(Lit(<<"\"">>))))),
      Plus(Not({"\""})), Cat(Opt(Lit(<<"\"">>)), WsStar)>>

STANDALONE_ENTITY ==
    << <<WsStar, EntityNameRe, Cat(WsStar, Lit(<<"[">>)), Plus(Not({"]"})), Lit(<<"]">>), WsStar>>,
       <<WsStar, EntityNameRe, WsStar>> >>

\* not anchored at the end: any tail follows
COMMENT == <<WsStar, Lit(<<"%", "%">>), Star(Cls(Alphabet))>>

EMPTY == <<WsStar>>

(***************************************************************************)
(* String helpers                                                          *)
(***************************************************************************)
RECURSIVE trimStart(_)
trimStart(s) == IF s # <<>> /\ Head(s) \in Ws THEN trimStart(Tail(s)) ELSE s
RECURSIVE trimEnd(_)
trimEnd(s) ==
    IF s # <<>> /\ s[Len(s)] \in Ws THEN trimEnd(SubSeq(s, 1, Len(s) - 1)) ELSE s
trim(s) == trimEnd(trimStart(s))

startsWith(s, p) == Len(s) >= Len(p) /\ SubSeq(s, 1, Len(p)) = p
endsWith(s, p) == Len(s) >= Len(p) /\ SubSeq(s, Len(s) - Len(p) + 1, Len(s)) = p
\* s.replace(/^p|p$/g, ''): a leading p goes, then a trailing p of what is left
replaceEnds(s, p) ==
    LET s1 == IF startsWith(s, p) THEN SubSeq(s, Len(p) + 1, Len(s)) ELSE s
    IN  IF endsWith(s1, p) THEN SubSeq(s1, 1, Len(s1) - Len(p)) ELSE s1

\* s.split(sep) for a one-character separator
RECURSIVE split(_, _)
split(s, sep) ==
    IF \E k \in 1..Len(s) : s[k] = sep
    THEN LET k == CHOOSE k \in 1..Len(s) : s[k] = sep /\ \A j \in 1..(k - 1) : s[j] # sep
         IN  <<SubSeq(s, 1, k - 1)>> \o split(SubSeq(s, k + 1, Len(s)), sep)
    ELSE <<s>>

includes(seq, x) == \E k \in 1..Len(seq) : seq[k] = x
\* s.includes(sub) for strings
includesText(s, sub) ==
    \E i \in 1..(Len(s) - Len(sub) + 1) : SubSeq(s, i, i + Len(sub) - 1) = sub
\* seq.indexOf(x) of an element that occurs
indexOf(seq, x) == CHOOSE k \in 1..Len(seq) : seq[k] = x /\ \A j \in 1..(k - 1) : seq[j] # x

(***************************************************************************)
(* parseCardinality, parseAttributeKeys, cleanEntityName                   *)
(***************************************************************************)
(***************************************************************************)
(* Property lookup obj[key] on an object literal: an own property, else a  *)
(* property inherited from Object.prototype, else undefined.  An inherited *)
(* value is a function or an object; it is kept as its text.               *)
(***************************************************************************)
ObjectPrototype ==
    (<<"c", "o", "n", "s", "t", "r", "u", "c", "t", "o", "r">> :> "function Object() { [native code] }") @@
    (<<"_", "_", "p", "r", "o", "t", "o", "_", "_">> :> "[object Object]") @@
    (<<"t", "o", "S", "t", "r", "i", "n", "g">> :> "function toString() { [native code] }") @@
    (<<"t", "o", "L", "o", "c", "a", "l", "e", "S", "t", "r", "i", "n", "g">> :> "function toLocaleString() { [native code] }") @@
    (<<"v", "a", "l", "u", "e", "O", "f">> :> "function valueOf() { [native code] }") @@
    (<<"h", "a", "s", "O", "w", "n", "P", "r", "o", "p", "e", "r", "t", "y">> :> "function hasOwnProperty() { [native code] }") @@
    (<<"i", "s", "P", "r", "o", "t", "o", "t", "y", "p", "e", "O", "f">> :> "function isPrototypeOf() { [native code] }") @@
    (<<"p", "r", "o", "p", "e", "r", "t", "y", "I", "s", "E", "n", "u", "m", "e", "r", "a", "b", "l", "e">> :> "function propertyIsEnumerable() { [native code] }")
PropertyOf(obj, key) ==
    IF key \in DOMAIN obj THEN Some(obj[key])
    ELSE IF key \in DOMAIN ObjectPrototype THEN Some(ObjectPrototype[key])
    ELSE Undefined

CARDINALITY_SYMBOLS ==
    [sym \in {<<"|", "o">>, <<"o", "|">>, <<"|", "|">>, <<"}", "o">>, <<"o", "{">>,
              <<"}", "|">>, <<"|", "{">>} |->
        CASE sym \in {<<"|", "o">>, <<"o", "|">>} -> "ZERO_OR_ONE"
          [] sym = <<"|", "|">> -> "EXACTLY_ONE"
          [] sym \in {<<"}", "o">>, <<"o", "{">>} -> "ZERO_OR_MORE"
          [] sym \in {<<"}", "|">>, <<"|", "{">>} -> "ONE_OR_MORE"]

parseCardinality(symbol) ==
    LET normalized == SelectSeq(symbol, LAMBDA c : c \notin Ws)
    IN  IF normalized \in {<<"|", "o">>, <<"o", "|">>} THEN "ZERO_OR_ONE"
        ELSE IF normalized = <<"|", "|">> THEN "EXACTLY_ONE"
        ELSE IF normalized \in {<<"}", "o">>, <<"o", "{">>, <<"{", "o">>} THEN "ZERO_OR_MORE"
        ELSE IF normalized \in {<<"}", "|">>, <<"|", "{">>, <<"{", "|">>} THEN "ONE_OR_MORE"
        ELSE IF PropertyOf(CARDINALITY_SYMBOLS, normalized) # Undefined
             THEN PropertyOf(CARDINALITY_SYMBOLS, normalized)[1]
        ELSE "EXACTLY_ONE"

\* keyString is optional; the keys are kept as strings "PK", "FK", "UK"
KeyName(part) ==
    CASE part = <<"P", "K">> -> "PK"
      [] part = <<"F", "K">> -> "FK"
      [] part = <<"U", "K">> -> "UK"
parseAttributeKeys(keyString) ==
    IF keyString = Undefined \/ keyString[1] = <<>> THEN <<>>
    ELSE LET raw == split(keyString[1], ",")
             parts == [k \in 1..Len(raw) |-> toUpperCase(trim(raw[k]))]
             kept == SelectSeq(parts, LAMBDA p : p \in {<<"P", "K">>, <<"F", "K">>, <<"U", "K">>})
         IN  [k \in 1..Len(kept) |-> KeyName(kept[k])]

cleanEntityName(name) == replaceEnds(replaceEnds(name, <<"\"">>), <<"\\", "\"">>)

(***************************************************************************)
(* The lines the model feeds to the parser                                 *)
(***************************************************************************)
L_header == <<"e", "r", "D", "i", "a", "g", "r", "a", "m">>
L_blank == <<>>
L_comment == <<"%", "%", " ", "c">>
L_direction == <<"d", "i", "r", "e", "c", "t", "i", "o", "n", " ", "T", "B">>
L_openA == <<"A", " ", "{">>
L_openB == <<"B", " ", "[", "b", "]", " ", "{">>
L_close == <<"}">>
L_attr == <<" ", " ", "i", "n", "t", " ", "i", "d">>
L_attrStar == <<"s", "t", "r", " ", "*", "k">>
L_attrStarPK == <<"i", "n", "t", " ", "*", "i", "d", " ", "P", "K">>
L_attrFull == <<"i", "n", "t", " ", "x", " ", "F", "K", ",", "U", "K", " ", "\"", "c", "\"">>
L_rel == <<"A", " ", "|", "|", "-", "-", "o", "{", " ", "B", " ", ":", " ", "r">>
L_standalone == <<"B">>
L_junk == <<"?", "?">>
L_commentDecl == <<"%", "%", " ", "e", "r", "D", "i", "a", "g", "r", "a", "m">>

Corpus ==
    {L_header, L_blank, L_comment, L_direction, L_openA, L_openB, L_close, L_attr,
     L_attrStar, L_attrStarPK, L_attrFull, L_rel, L_standalone, L_junk,
     L_commentDecl}

\* What each pattern says of each (trimmed) line; the matches are computed once.
Matches ==
    [l \in Corpus |->
        LET line == trim(l)
        IN  [line |-> line,
             erdiagram |-> includesText(toLowerCase(l), <<"e", "r", "d", "i", "a", "g", "r", "a", "m">>),
             EMPTY |-> Test(EMPTY, line),
             COMMENT |-> Test(COMMENT, line),
             ER_DIAGRAM_START |-> Test(ER_DIAGRAM_START, line),
             DIRECTION |-> Test(DIRECTION, line),
             ENTITY_BLOCK_END |-> Test(ENTITY_BLOCK_END, line),
             ATTRIBUTE |-> FirstMatch(ATTRIBUTE, line, 1),
             ENTITY_BLOCK_START |-> FirstMatch(ENTITY_BLOCK_START, line, 1),
             RELATIONSHIP |-> Match(RELATIONSHIP, line),
             STANDALONE_ENTITY |-> FirstMatch(STANDALONE_ENTITY, line, 1)]]

(***************************************************************************)
(* State of one call of parseERDiagram                                     *)
(***************************************************************************)
VARIABLES
    pc,             \* "loop" while the for loop runs, "done" once the call has returned
    rawLine,        \* the line of the current iteration
    lineNumber,
    inERDiagram,
    inEntityBlock,
    currentEntity,  \* Entity | null
    entities,       \* the Map, as the sequence of its values in insertion order
    relationships,
    errors,
    result,         \* the ParseResult, once returned
    hasDeclaration, \* input.toLowerCase().includes('erdiagram'), of the lines read so far
    validation,     \* what validateERDiagram returns, once returned
    op,             \* the exported function under call
    args,           \* its arguments, for a function that is not fed line by line
    ret,            \* its return value, once returned
    db,             \* the statements issued to the database, in order, each with its outcome
    cachedSchema,   \* dbTools: the schema of the last successful getSchema, or null
    frame,          \* the local variables of the tool handler under call
    client,         \* the pooled client of the transaction, with its number of releases
    server,         \* apiServer: the module's server variable, an http server or null
    currentEndpoints,
    httpServers,    \* the http servers that app.listen has created, each with its status
    calls           \* the calls of startApiServer and stopApiServer, each with its position

\* the state of the tools, the database and the API server
serviceVars == <<db, cachedSchema, frame, client, server, currentEndpoints, httpServers, calls>>

vars == <<pc, rawLine, lineNumber, inERDiagram, inEntityBlock, currentEntity,
          entities, relationships, errors, result, hasDeclaration, validation,
          op, args, ret, serviceVars>>

\* no tool was called, no statement was issued, no server was started
ServiceIdle ==
    /\ db = <<>>
    /\ cachedSchema = Undefined
    /\ frame = Undefined
    /\ client = Undefined
    /\ server = Undefined
    /\ currentEndpoints = <<>>
    /\ httpServers = <<>>
    /\ calls = <<>>

(***************************************************************************)
(* The entity table: Map<string, Entity>                                   *)
(***************************************************************************)
has(ents, name) == \E k \in 1..Len(ents) : ents[k].name = name
get(ents, name) == ents[CHOOSE k \in 1..Len(ents) : ents[k].name = name]
\* a list instead of a Map: every set adds an entry
MapSet_Append(ents, e) == Append(ents, e)
\* a Map whose set moves a present key to the end
MapSet_MoveToEnd(ents, e) == Append(SelectSeq(ents, LAMBDA x : x.name # e.name), e)
\* Map.set gone wrong: a present key keeps its old value
MapSet_KeepFirst(ents, e) == IF has(ents, e.name) THEN ents ELSE Append(ents, e)
\* Map.set: a present key keeps its position and takes the new value
MapSet(ents, e) ==
    IF has(ents, e.name)
    THEN [k \in 1..Len(ents) |-> IF ents[k].name = e.name THEN e ELSE ents[k]]
    ELSE Append(ents, e)
\* the guard inverted: only a present key is set
setIfAbsent_Inverted(ents, e) == IF has(ents, e.name) THEN MapSet(ents, e) ELSE ents
\* the guard dropped: the key is always set
setIfAbsent_Always(ents, e) == MapSet(ents, e)
\* if (!entities.has(name)) entities.set(name, e)
setIfAbsent(ents, e) == IF ~has(ents, e.name) THEN MapSet(ents, e) ELSE ents

(***************************************************************************)
(* What a matched line contributes                                         *)
(***************************************************************************)
\* the Attribute without the implicit PK of a '*' name
AttributeOf_NoImplicitPK(line, am) ==
    LET name == Group(line, am.m, 4)
        keys == IF am.v \in {1, 2} THEN Some(Group(line, am.m, 6)) ELSE Undefined
    IN  [type |-> Group(line, am.m, 2),
         name |-> IF startsWith(name, <<"*">>) THEN Tail(name) ELSE name,
         keys |-> parseAttributeKeys(keys),
         comment |-> CASE am.v = 1 -> Some(Group(line, am.m, 8))
                       [] am.v = 3 -> Some(Group(line, am.m, 6))
                       [] OTHER -> Undefined]
\* the Attribute of a line with ATTRIBUTE match am
AttributeOf(line, am) ==
    LET type == Group(line, am.m, 2)
        name == Group(line, am.m, 4)
        keys == IF am.v \in {1, 2} THEN Some(Group(line, am.m, 6)) ELSE Undefined
        comment == CASE am.v = 1 -> Some(Group(line, am.m, 8))
                     [] am.v = 3 -> Some(Group(line, am.m, 6))
                     [] OTHER -> Undefined
        parsed == parseAttributeKeys(keys)
    IN  [type |-> type,
         name |-> IF startsWith(name, <<"*">>) THEN Tail(name) ELSE name,
         keys |-> IF startsWith(name, <<"*">>) /\ ~includes(parsed, "PK")
                  THEN <<"PK">> \o parsed ELSE parsed,
         comment |-> comment]

\* the error message with a 0-based line number
ErrorOf_ZeroBased(n, line) == [lineNumber |-> n - 1, line |-> line]
\* the error message of an unparseable attribute line
ErrorOf(n, line) == [lineNumber |-> n, line |-> line]

\* the entity a block-open or standalone line with match em declares
EntityOf(line, em) ==
    [name |-> cleanEntityName(Group(line, em.m, 2)),
     alias |-> IF em.v = 1 THEN Some(cleanEntityName(Group(line, em.m, 4))) ELSE Undefined,
     attributes |-> <<>>]

ImplicitEntity(name) == [name |-> name, alias |-> Undefined, attributes |-> <<>>]

\* the Relationship of a line with RELATIONSHIP match rm
RelationshipOf(line, rm) ==
    [firstEntity |-> cleanEntityName(Group(line, rm, 2)),
     secondEntity |-> cleanEntityName(Group(line, rm, 8)),
     firstCardinality |-> parseCardinality(Group(line, rm, 4)),
     secondCardinality |-> parseCardinality(Group(line, rm, 6)),
     identifying |-> Group(line, rm, 5) = <<"-", "-">>,
     label |-> replaceEnds(trim(Group(line, rm, 10)), <<"\"">>)]

\* the loop body without the check for the header having been seen
Branch_NoHeaderGate(l) ==
    LET M == Matches[l]
    IN  IF M.EMPTY \/ M.COMMENT THEN "skip"
        ELSE IF M.ER_DIAGRAM_START THEN "header"
        ELSE IF M.DIRECTION THEN "direction"
        ELSE IF M.ENTITY_BLOCK_END THEN "blockEnd"
        ELSE IF inEntityBlock /\ currentEntity # Undefined
             THEN (IF M.ATTRIBUTE # Undefined THEN "attribute" ELSE "attributeError")
        ELSE IF M.ENTITY_BLOCK_START # Undefined THEN "blockStart"
        ELSE IF M.RELATIONSHIP # Undefined THEN "relationship"
        ELSE IF M.STANDALONE_ENTITY # Undefined THEN "standalone"
        ELSE "unrecognized"
\* the loop body looking for a block start before the open block's attributes
Branch_BlockStartFirst(l) ==
    LET M == Matches[l]
    IN  IF M.EMPTY \/ M.COMMENT THEN "skip"
        ELSE IF M.ER_DIAGRAM_START THEN "header"
        ELSE IF ~inERDiagram THEN "beforeHeader"
        ELSE IF M.DIRECTION THEN "direction"
        ELSE IF M.ENTITY_BLOCK_END THEN "blockEnd"
        ELSE IF M.ENTITY_BLOCK_START # Undefined THEN "blockStart"
        ELSE IF inEntityBlock /\ currentEntity # Undefined
             THEN (IF M.ATTRIBUTE # Undefined THEN "attribute" ELSE "attributeError")
        ELSE IF M.RELATIONSHIP # Undefined THEN "relationship"
        ELSE IF M.STANDALONE_ENTITY # Undefined THEN "standalone"
        ELSE "unrecognized"
\* the loop body reporting a line it does not recognize
Branch_ErrorOnUnrecognized(l) ==
    LET M == Matches[l]
    IN  IF M.EMPTY \/ M.COMMENT THEN "skip"
        ELSE IF M.ER_DIAGRAM_START THEN "header"
        ELSE IF ~inERDiagram THEN "beforeHeader"
        ELSE IF M.DIRECTION THEN "direction"
        ELSE IF M.ENTITY_BLOCK_END THEN "blockEnd"
        ELSE IF inEntityBlock /\ currentEntity # Undefined
             THEN (IF M.ATTRIBUTE # Undefined THEN "attribute" ELSE "attributeError")
        ELSE IF M.ENTITY_BLOCK_START # Undefined THEN "blockStart"
        ELSE IF M.RELATIONSHIP # Undefined THEN "relationship"
        ELSE IF M.STANDALONE_ENTITY # Undefined THEN "standalone"
        ELSE "attributeError"
\* the branch of the loop body that line l takes, in the order of the code
Branch(l) ==
    LET M == Matches[l]
    IN  IF M.EMPTY \/ M.COMMENT THEN "skip"
        ELSE IF M.ER_DIAGRAM_START THEN "header"
        ELSE IF ~inERDiagram THEN "beforeHeader"
        ELSE IF M.DIRECTION THEN "direction"
        ELSE IF M.ENTITY_BLOCK_END THEN "blockEnd"
        ELSE IF inEntityBlock /\ currentEntity # Undefined
             THEN (IF M.ATTRIBUTE # Undefined THEN "attribute" ELSE "attributeError")
        ELSE IF M.ENTITY_BLOCK_START # Undefined THEN "blockStart"
        ELSE IF M.RELATIONSHIP # Undefined THEN "relationship"
        ELSE IF M.STANDALONE_ENTITY # Undefined THEN "standalone"
        ELSE "unrecognized"

\* success while at most one error was recorded
Success_AtMostOne(errs) == Len(errs) <= 1
\* success: errors.length === 0
Success(errs) == Len(errs) = 0

\* the entity table after the loop when an open block is discarded
CloseOpenBlock_Discard(ents, cur) == ents
\* the entity table after the loop: a block still open is closed
CloseOpenBlock(ents, cur) == IF cur # Undefined THEN MapSet(ents, cur[1]) ELSE ents

(***************************************************************************)
(* parseERDiagram                                                          *)
(***************************************************************************)
Init ==
    /\ pc = "loop"
    /\ rawLine = <<>>
    /\ lineNumber = 0
    /\ inERDiagram = FALSE
    /\ inEntityBlock = FALSE
    /\ currentEntity = Undefined
    /\ entities = <<>>
    /\ relationships = <<>>
    /\ errors = <<>>
    /\ result = Undefined
    /\ hasDeclaration = FALSE
    /\ validation = Undefined
    /\ op = "validateERDiagram"
    /\ args = <<>>
    /\ ret = Undefined
    /\ ServiceIdle

\* every iteration reads the next line and counts it
ReadLine(l, branch) ==
    /\ pc = "loop"
    /\ lineNumber < MaxLines
    /\ Branch(l) = branch
    /\ rawLine' = l
    /\ lineNumber' = lineNumber + 1
    /\ hasDeclaration' = (hasDeclaration \/ Matches[l].erdiagram)
    /\ UNCHANGED <<pc, result, validation, op, args, ret, serviceVars>>

SkipLine ==
    \E l \in Corpus :
        /\ ReadLine(l, "skip")
        /\ UNCHANGED <<inERDiagram, inEntityBlock, currentEntity, entities, relationships, errors>>

Header ==
    \E l \in Corpus :
        /\ ReadLine(l, "header")
        /\ inERDiagram' = TRUE
        /\ UNCHANGED <<inEntityBlock, currentEntity, entities, relationships, errors>>

BeforeHeader ==
    \E l \in Corpus :
        /\ ReadLine(l, "beforeHeader")
        /\ UNCHANGED <<inERDiagram, inEntityBlock, currentEntity, entities, relationships, errors>>

Direction ==
    \E l \in Corpus :
        /\ ReadLine(l, "direction")
        /\ UNCHANGED <<inERDiagram, inEntityBlock, currentEntity, entities, relationships, errors>>

BlockEnd ==
    \E l \in Corpus :
        /\ ReadLine(l, "blockEnd")
        /\ IF currentEntity # Undefined
           THEN /\ entities' = MapSet(entities, currentEntity[1])
                /\ currentEntity' = Undefined
           ELSE UNCHANGED <<entities, currentEntity>>
        /\ inEntityBlock' = FALSE
        /\ UNCHANGED <<inERDiagram, relationships, errors>>

AttributeLine ==
    \E l \in Corpus :
        /\ ReadLine(l, "attribute")
        /\ currentEntity' =
              Some([currentEntity[1] EXCEPT
                      !.attributes = Append(@, AttributeOf(Matches[l].line, Matches[l].ATTRIBUTE[1]))])
        /\ UNCHANGED <<inERDiagram, inEntityBlock, entities, relationships, errors>>

AttributeError ==
    \E l \in Corpus :
        /\ ReadLine(l, "attributeError")
        /\ errors' = Append(errors, ErrorOf(lineNumber', Matches[l].line))
        /\ UNCHANGED <<inERDiagram, inEntityBlock, currentEntity, entities, relationships>>

BlockStart ==
    \E l \in Corpus :
        /\ ReadLine(l, "blockStart")
        /\ currentEntity' = Some(EntityOf(Matches[l].line, Matches[l].ENTITY_BLOCK_START[1]))
        /\ inEntityBlock' = TRUE
        /\ UNCHANGED <<inERDiagram, entities, relationships, errors>>

RelationshipLine ==
    \E l \in Corpus :
        /\ ReadLine(l, "relationship")
        /\ LET rel == RelationshipOf(Matches[l].line, Matches[l].RELATIONSHIP)
           IN  /\ entities' = setIfAbsent(setIfAbsent(entities, ImplicitEntity(rel.firstEntity)),
                                          ImplicitEntity(rel.secondEntity))
               /\ relationships' = Append(relationships, rel)
        /\ UNCHANGED <<inERDiagram, inEntityBlock, currentEntity, errors>>

StandaloneEntity ==
    \E l \in Corpus :
        /\ ReadLine(l, "standalone")
        /\ entities' = setIfAbsent(entities, EntityOf(Matches[l].line, Matches[l].STANDALONE_ENTITY[1]))
        /\ UNCHANGED <<inERDiagram, inEntityBlock, currentEntity, relationships, errors>>

Unrecognized ==
    \E l \in Corpus :
        /\ ReadLine(l, "unrecognized")
        /\ UNCHANGED <<inERDiagram, inEntityBlock, currentEntity, entities, relationships, errors>>

\* the end of the input: input.split('\n') has at least one line
Return ==
    /\ pc = "loop"
    /\ lineNumber >= 1
    /\ entities' = CloseOpenBlock(entities, currentEntity)
    /\ result' = Some([success |-> Success(errors),
                       schema |-> Some([entities |-> entities', relationships |-> relationships]),
                       errors |-> IF Len(errors) > 0 THEN Some(errors) ELSE Undefined])
    /\ pc' = "done"
    /\ UNCHANGED <<rawLine, lineNumber, inERDiagram, inEntityBlock, currentEntity,
                   relationships, errors, hasDeclaration, validation, op, args, ret, serviceVars>>

(***************************************************************************)
(* validateERDiagram: the parse above, then the additional validation      *)
(***************************************************************************)
MissingDeclaration == [kind |-> "Diagram does not contain \"erDiagram\" declaration"]
DuplicateNames(names) == [kind |-> "Duplicate entity names", names |-> names]
NonExistent(name) == [kind |-> "Relationship references non-existent entity", name |-> name]

\* the errors of the relationships rels[k..] against the entity names
RECURSIVE DanglingErrors(_, _, _)
DanglingErrors(rels, names, k) ==
    IF k > Len(rels) THEN <<>>
    ELSE (IF ~includes(names, rels[k].firstEntity)
          THEN <<NonExistent(rels[k].firstEntity)>> ELSE <<>>)
         \o (IF ~includes(names, rels[k].secondEntity)
             THEN <<NonExistent(rels[k].secondEntity)>> ELSE <<>>)
         \o DanglingErrors(rels, names, k + 1)

\* res is the ParseResult, declared says whether the raw text includes 'erdiagram'
validateERDiagram(res, declared) ==
    LET parseErrors == IF res.errors # Undefined THEN res.errors[1] ELSE <<>>
        e1 == IF ~declared THEN Append(parseErrors, MissingDeclaration) ELSE parseErrors
        sch == res.schema[1]
        entityNames == [k \in 1..Len(sch.entities) |-> sch.entities[k].name]
        positions == SelectSeq([k \in 1..Len(entityNames) |-> k],
                               LAMBDA k : indexOf(entityNames, entityNames[k]) # k)
        duplicates == [k \in 1..Len(positions) |-> entityNames[positions[k]]]
        e2 == IF Len(duplicates) > 0 THEN Append(e1, DuplicateNames(duplicates)) ELSE e1
        all == IF res.schema # Undefined
               THEN e2 \o DanglingErrors(sch.relationships, entityNames, 1)
               ELSE e1
    IN  [valid |-> Len(all) = 0, errors |-> all]

\* validation that takes the parser's state for the declaration check
Validate_ParseState ==
    /\ pc = "done"
    /\ validation' = Some(validateERDiagram(result[1], inERDiagram))
    /\ pc' = "validated"
    /\ UNCHANGED <<rawLine, lineNumber, inERDiagram, inEntityBlock, currentEntity, entities,
                   relationships, errors, result, hasDeclaration, op, args, ret, serviceVars>>
Validate ==
    /\ pc = "done"
    /\ validation' = Some(validateERDiagram(result[1], hasDeclaration))
    /\ pc' = "validated"
    /\ UNCHANGED <<rawLine, lineNumber, inERDiagram, inEntityBlock, currentEntity, entities,
                   relationships, errors, result, hasDeclaration, op, args, ret, serviceVars>>

Next ==
    \/ SkipLine
    \/ Header
    \/ BeforeHeader
    \/ Direction
    \/ BlockEnd
    \/ AttributeLine
    \/ AttributeError
    \/ BlockStart
    \/ RelationshipLine
    \/ StandaloneEntity
    \/ Unrecognized
    \/ Return
    \/ Validate

Spec == Init /\ [][Next]_vars

(***************************************************************************)
(* Properties of parseERDiagram                                            *)
(***************************************************************************)
\* a step of the loop: one more line has been read
ReadStep == pc = "loop" /\ pc' = "loop" /\ lineNumber' = lineNumber + 1
\* the step in which the call returns
ReturnStep == pc = "loop" /\ pc' = "done"
\* an entity block is open
BlockOpen == inEntityBlock /\ currentEntity # Undefined
\* the returned schema
Schema == result[1].schema[1]
NameA == <<"A">>
NameB == <<"B">>

\* C1: the call returns success = true exactly when no error was recorded
\* during the pass, and returns a schema whether or not it succeeded.
C1_SuccessIffNoErrors ==
    pc = "done" =>
        /\ result # Undefined
        /\ result[1].success <=> (Len(errors) = 0)
        /\ result[1].schema # Undefined
        /\ (result[1].errors = Undefined) <=> (Len(errors) = 0)

C1_Witness ==
    /\ pc = "done"
    /\ Len(errors) > 0
    /\ ~result[1].success
    /\ result[1].schema # Undefined
    /\ Len(Schema.entities) > 0

\* C2: every relationship names two entities of the entity table, during the
\* pass and in the returned schema.
C2_RelationshipEntitiesExist ==
    /\ \A k \in 1..Len(relationships) :
          /\ has(entities, relationships[k].firstEntity)
          /\ has(entities, relationships[k].secondEntity)
    /\ pc = "done" =>
          \A k \in 1..Len(Schema.relationships) :
              /\ has(Schema.entities, Schema.relationships[k].firstEntity)
              /\ has(Schema.entities, Schema.relationships[k].secondEntity)

\* the relationship came first and created both entities
C2_Witness ==
    /\ pc = "done"
    /\ Len(Schema.relationships) = 1
    /\ Len(Schema.entities) = 2
    /\ \A k \in 1..2 : Schema.entities[k].attributes = <<>>

\* C3: a step that reads a relationship line or a standalone entity line
\* leaves every entity already in the table as it was, in its place, and
\* whatever it adds is a zero-attribute entity under a name that was absent.
C3_NoOverwriteByImplicit ==
    [][(/\ ReadStep
        /\ \/ Matches[rawLine'].RELATIONSHIP # Undefined
           \/ Matches[rawLine'].STANDALONE_ENTITY # Undefined)
       => /\ Len(entities') >= Len(entities)
          /\ \A k \in 1..Len(entities) : entities'[k] = entities[k]
          /\ \A k \in (Len(entities) + 1)..Len(entities') :
                /\ entities'[k].attributes = <<>>
                /\ ~has(entities, entities'[k].name)]_vars

\* a standalone line for B was read at top level when B already had an alias
\* and attributes from its block
C3_Witness ==
    /\ pc = "loop"
    /\ rawLine = L_standalone
    /\ inERDiagram /\ ~inEntityBlock
    /\ has(entities, NameB)
    /\ get(entities, NameB).attributes # <<>>
    /\ get(entities, NameB).alias = Some(<<"b">>)

\* C4: while a block is open, every line with valid attribute syntax adds
\* exactly one attribute, at the end of the in-progress entity's attributes.
C4_OneAttributePerAttributeLine ==
    [][(ReadStep /\ BlockOpen /\ Matches[rawLine'].ATTRIBUTE # Undefined)
       => /\ currentEntity' # Undefined
          /\ Len(currentEntity'[1].attributes) = Len(currentEntity[1].attributes) + 1
          /\ SubSeq(currentEntity'[1].attributes, 1, Len(currentEntity[1].attributes))
                = currentEntity[1].attributes]_vars

\* C5: an attribute line read in an open block whose name starts with '*'
\* appends an attribute that has PK among its keys and the name without '*'.
StarName(l) ==
    /\ Matches[l].ATTRIBUTE # Undefined
    /\ Head(Group(Matches[l].line, Matches[l].ATTRIBUTE[1].m, 4)) = "*"
C5_LeadingMarkerIsPK ==
    [][(ReadStep /\ BlockOpen /\ StarName(rawLine'))
       => /\ currentEntity' # Undefined
          /\ Len(currentEntity'[1].attributes) = Len(currentEntity[1].attributes) + 1
          /\ LET a == currentEntity'[1].attributes[Len(currentEntity'[1].attributes)]
             IN  /\ includes(a.keys, "PK")
                 /\ a.name = Tail(Group(Matches[rawLine'].line, Matches[rawLine'].ATTRIBUTE[1].m, 4))
                 /\ Head(a.name) # "*"]_vars

\* both '*k' (no PK listed) and '*id PK' were read in one block
C5_Witness ==
    /\ currentEntity # Undefined
    /\ \E i, j \in 1..Len(currentEntity[1].attributes) :
          /\ currentEntity[1].attributes[i].name = <<"k">>
          /\ currentEntity[1].attributes[i].keys = <<"PK">>
          /\ currentEntity[1].attributes[j].name = <<"i", "d">>
          /\ currentEntity[1].attributes[j].keys = <<"PK">>

\* what C6 promises of a step
C6_ErrorRecorded ==
    /\ errors' = Append(errors, [lineNumber |-> lineNumber + 1, line |-> trim(rawLine')])
    /\ currentEntity' = currentEntity
    /\ inEntityBlock'
    /\ entities' = entities
    /\ pc' = "loop"
C6_FailureReturned ==
    (pc = "done" /\ Len(errors) > 0) =>
        ~result[1].success /\ result[1].schema # Undefined

\* C6 as claimed: a line read in an open block that does not match the
\* attribute syntax records one error with its line number, adds no attribute
\* and keeps the block open.  Blank lines, comment lines and the closing brace
\* are taken to be outside the claim.
C6_Original ==
    [][(/\ ReadStep /\ BlockOpen
        /\ Matches[rawLine'].ATTRIBUTE = Undefined
        /\ ~Matches[rawLine'].EMPTY
        /\ ~Matches[rawLine'].COMMENT
        /\ ~Matches[rawLine'].ENTITY_BLOCK_END)
       => C6_ErrorRecorded]_vars

\* C6 amended: the same of a line that is not a header line either.
C6_BadAttributeLineRecorded ==
    /\ [][(/\ ReadStep /\ BlockOpen
           /\ Matches[rawLine'].ATTRIBUTE = Undefined
           /\ ~Matches[rawLine'].EMPTY
           /\ ~Matches[rawLine'].COMMENT
           /\ ~Matches[rawLine'].ENTITY_BLOCK_END
           /\ ~Matches[rawLine'].ER_DIAGRAM_START)
          => C6_ErrorRecorded]_vars
    /\ []C6_FailureReturned

\* an error for line 4, after a blank line, and an attribute after the error
C6_Witness ==
    /\ pc = "done"
    /\ errors = <<[lineNumber |-> 4, line |-> L_junk]>>
    /\ currentEntity # Undefined
    /\ Len(currentEntity[1].attributes) = 1
    /\ rawLine # L_junk
    /\ ~result[1].success
    /\ Len(Schema.entities) = 1

\* C7: before the header nothing is collected; an input without a header
\* line returns an empty schema and success = true.
C7_NothingBeforeHeader ==
    /\ ~inERDiagram =>
          /\ entities = <<>>
          /\ relationships = <<>>
          /\ errors = <<>>
          /\ currentEntity = Undefined
          /\ ~inEntityBlock
    /\ (pc = "done" /\ ~inERDiagram) =>
          /\ result[1].success
          /\ Schema = [entities |-> <<>>, relationships |-> <<>>]

\* a relationship line was read last, and no header
C7_Witness ==
    /\ pc = "done"
    /\ ~inERDiagram
    /\ lineNumber >= 2
    /\ rawLine = L_rel
    /\ result[1].success

\* C8: a closing brace read while a block is open stores the in-progress
\* entity under its name, in place of whatever was there, leaves the other
\* entities alone and returns the parser to top level.
C8_CloseCommitsBlock ==
    [][(ReadStep /\ BlockOpen /\ Matches[rawLine'].ENTITY_BLOCK_END)
       => LET e == currentEntity[1]
          IN  /\ Cardinality({k \in 1..Len(entities') : entities'[k].name = e.name}) = 1
              /\ get(entities', e.name) = e
              /\ \A k \in 1..Len(entities) :
                    entities[k].name # e.name => entities'[k] = entities[k]
              /\ ~inEntityBlock'
              /\ currentEntity' = Undefined]_vars

\* the relationship created A and B, then the block of A replaced A
C8_Witness ==
    /\ pc = "loop"
    /\ rawLine = L_close
    /\ lineNumber = 5
    /\ Len(relationships) = 1
    /\ Len(entities) = 2
    /\ entities[1].name = NameA
    /\ Len(entities[1].attributes) = 1
    /\ ~inEntityBlock
    /\ currentEntity = Undefined

\* C9: an open block is never dropped: a step keeps the in-progress entity
\* (extending its attributes) or stores it in the entity table; the return
\* with a block still open stores it in the returned schema and records no
\* error.
C9_OpenBlockIsCommitted ==
    [][/\ (ReadStep /\ currentEntity # Undefined) =>
             \/ /\ currentEntity' # Undefined
                /\ currentEntity'[1].name = currentEntity[1].name
                /\ currentEntity'[1].alias = currentEntity[1].alias
                /\ Len(currentEntity'[1].attributes) >= Len(currentEntity[1].attributes)
                /\ SubSeq(currentEntity'[1].attributes, 1, Len(currentEntity[1].attributes))
                      = currentEntity[1].attributes
             \/ /\ has(entities', currentEntity[1].name)
                /\ get(entities', currentEntity[1].name) = currentEntity[1]
       /\ ReturnStep =>
             /\ errors' = errors
             /\ result'[1].success <=> (Len(errors) = 0)
             /\ currentEntity # Undefined =>
                   /\ has(result'[1].schema[1].entities, currentEntity[1].name)
                   /\ get(result'[1].schema[1].entities, currentEntity[1].name) = currentEntity[1]]_vars

\* returned from inside the block of A, with its attributes and no error
C9_Witness ==
    /\ pc = "done"
    /\ inEntityBlock
    /\ currentEntity # Undefined
    /\ Len(currentEntity[1].attributes) = 2
    /\ errors = <<>>
    /\ result[1].success
    /\ Schema.entities = <<currentEntity[1]>>

\* C10: outside an entity block no step records an error, and a line that
\* matches no pattern changes nothing; a returned schema without entities
\* comes with success = true.
MatchesNothing(l) ==
    /\ ~Matches[l].EMPTY /\ ~Matches[l].COMMENT /\ ~Matches[l].ER_DIAGRAM_START
    /\ ~Matches[l].DIRECTION /\ ~Matches[l].ENTITY_BLOCK_END
    /\ Matches[l].ENTITY_BLOCK_START = Undefined
    /\ Matches[l].RELATIONSHIP = Undefined
    /\ Matches[l].STANDALONE_ENTITY = Undefined
C10_ErrorsOnlyInBlock ==
    /\ [][/\ ~BlockOpen => errors' = errors
          /\ (ReadStep /\ ~BlockOpen /\ MatchesNothing(rawLine')) =>
                UNCHANGED <<inERDiagram, inEntityBlock, currentEntity, entities,
                            relationships, errors>>]_vars
    /\ []((pc = "done" /\ Schema.entities = <<>>) => result[1].success)

\* an unrecognized line was read at top level, after the header
C10_Witness ==
    /\ pc = "done"
    /\ inERDiagram /\ ~inEntityBlock
    /\ rawLine = L_junk
    /\ errors = <<>>
    /\ result[1].success
    /\ Len(Schema.entities) > 0

\* C13: validateERDiagram reports the missing declaration exactly when the
\* raw text does not include 'erdiagram' in any case, whatever the parser saw.
C13_MissingDeclarationFromRawText ==
    pc = "validated" =>
        /\ includes(validation[1].errors, MissingDeclaration) <=> ~hasDeclaration
        /\ ~hasDeclaration => ~validation[1].valid

\* the keyword stood in a comment only: the parser saw no header, and the
\* validator reports no missing declaration
C13_Witness ==
    /\ pc = "validated"
    /\ hasDeclaration
    /\ ~inERDiagram
    /\ ~includes(validation[1].errors, MissingDeclaration)
    /\ validation[1].valid

(***************************************************************************)
(* Calls of the exported pure functions: the arguments are drawn in the    *)
(* initial state, one step applies the function.                           *)
(***************************************************************************)
SeqsUpTo(S, n) == UNION {[1..k -> S] : k \in 0..n}

\* no parseERDiagram call is in progress
ParserIdle ==
    /\ rawLine = <<>>
    /\ lineNumber = 0
    /\ inERDiagram = FALSE
    /\ inEntityBlock = FALSE
    /\ currentEntity = Undefined
    /\ entities = <<>>
    /\ relationships = <<>>
    /\ errors = <<>>
    /\ result = Undefined
    /\ hasDeclaration = FALSE
    /\ validation = Undefined
parserVars == <<rawLine, lineNumber, inERDiagram, inEntityBlock, currentEntity,
                entities, relationships, errors, result, hasDeclaration, validation>>

\* the call of f returns v
Returns(f, v) ==
    /\ pc = "call"
    /\ op = f
    /\ ret' = Some(v)
    /\ pc' = "returned"
    /\ UNCHANGED <<op, args, parserVars, serviceVars>>
Returned(f) == pc = "returned" /\ op = f

(***************************************************************************)
(* parseCardinality and cleanEntityName                                    *)
(***************************************************************************)
CardinalityTokens ==
    SeqsUpTo({"|", "o", "{", "}", " "}, MaxTokenLen)
        \cup {<<"c", "o", "n", "s", "t", "r", "u", "c", "t", "o", "r">>,
              <<"t", "o", "S", "t", "r", "i", "n", "g">>}
EntityNameTexts == SeqsUpTo({"\"", "\\", "A"}, MaxNameLen)

InitCodec ==
    /\ pc = "call"
    /\ ParserIdle
    /\ ServiceIdle
    /\ ret = Undefined
    /\ \/ op = "parseCardinality" /\ args \in CardinalityTokens
       \/ op = "cleanEntityName" /\ args \in EntityNameTexts

CallParseCardinality == Returns("parseCardinality", parseCardinality(args))
CallCleanEntityName == Returns("cleanEntityName", cleanEntityName(args))

NextCodec ==
    \/ CallParseCardinality
    \/ CallCleanEntityName

SpecCodec == InitCodec /\ [][NextCodec]_vars

\* C11: parseCardinality decodes the nine listed tokens (whitespace inside
\* the token removed) to their values and every other token to EXACTLY_ONE.
C11_CardinalityTable ==
    Returned("parseCardinality") =>
        LET token == SelectSeq(args, LAMBDA c : c \notin Ws)
        IN  ret[1] =
              CASE token \in {<<"|", "o">>, <<"o", "|">>} -> "ZERO_OR_ONE"
                [] token \in {<<"}", "o">>, <<"o", "{">>, <<"{", "o">>} -> "ZERO_OR_MORE"
                [] token \in {<<"}", "|">>, <<"|", "{">>, <<"{", "|">>} -> "ONE_OR_MORE"
                [] OTHER -> "EXACTLY_ONE"

\* C12: cleanEntityName returns the inner name of a name wrapped in double
\* quotes ("inner") or in escaped quotes (\"inner\"), the inner name being
\* non-empty and free of double quotes.
NoQuote(s) == s # <<>> /\ \A k \in 1..Len(s) : s[k] # "\""
QuotedInner(s) == SubSeq(s, 2, Len(s) - 1)
IsQuoted(s) == Len(s) >= 3 /\ s[1] = "\"" /\ s[Len(s)] = "\"" /\ NoQuote(QuotedInner(s))
EscapedInner(s) == SubSeq(s, 3, Len(s) - 2)
IsEscaped(s) ==
    /\ Len(s) >= 5
    /\ SubSeq(s, 1, 2) = <<"\\", "\"">>
    /\ SubSeq(s, Len(s) - 1, Len(s)) = <<"\\", "\"">>
    /\ NoQuote(EscapedInner(s))
C12_WrappingQuotesRemoved ==
    Returned("cleanEntityName") =>
        /\ IsQuoted(args) => ret[1] = QuotedInner(args)
        /\ IsEscaped(args) => ret[1] = EscapedInner(args)

(***************************************************************************)
(* mapType (sqlGenerator)                                                  *)
(***************************************************************************)
\* Most array suffixes '[]' on a type token that the model passes to mapType.
MaxArrayDepth == 2

TYPE_MAPPING ==
    (<<"i", "n", "t">> :> <<"I", "N", "T", "E", "G", "E", "R">>) @@
    (<<"i", "n", "t", "e", "g", "e", "r">> :> <<"I", "N", "T", "E", "G", "E", "R">>) @@
    (<<"b", "i", "g", "i", "n", "t">> :> <<"B", "I", "G", "I", "N", "T">>) @@
    (<<"s", "m", "a", "l", "l", "i", "n", "t">> :> <<"S", "M", "A", "L", "L", "I", "N", "T">>) @@
    (<<"s", "e", "r", "i", "a", "l">> :> <<"S", "E", "R", "I", "A", "L">>) @@
    (<<"b", "i", "g", "s", "e", "r", "i", "a", "l">> :> <<"B", "I", "G", "S", "E", "R", "I", "A", "L">>) @@
    (<<"d", "e", "c", "i", "m", "a", "l">> :> <<"D", "E", "C", "I", "M", "A", "L", "(", "1", "0", ",", "2", ")">>) @@
    (<<"n", "u", "m", "e", "r", "i", "c">> :> <<"N", "U", "M", "E", "R", "I", "C">>) @@
    (<<"f", "l", "o", "a", "t">> :> <<"F", "L", "O", "A", "T">>) @@
    (<<"r", "e", "a", "l">> :> <<"R", "E", "A", "L">>) @@
    (<<"d", "o", "u", "b", "l", "e">> :> <<"D", "O", "U", "B", "L", "E", " ", "P", "R", "E", "C", "I", "S", "I", "O", "N">>) @@
    (<<"s", "t", "r", "i", "n", "g">> :> <<"V", "A", "R", "C", "H", "A", "R", "(", "2", "5", "5", ")">>) @@
    (<<"v", "a", "r", "c", "h", "a", "r">> :> <<"V", "A", "R", "C", "H", "A", "R", "(", "2", "5", "5", ")">>) @@
    (<<"t", "e", "x", "t">> :> <<"T", "E", "X", "T">>) @@
    (<<"c", "h", "a", "r">> :> <<"C", "H", "A", "R", "(", "1", ")">>) @@
    (<<"b", "o", "o", "l", "e", "a", "n">> :> <<"B", "O", "O", "L", "E", "A", "N">>) @@
    (<<"b", "o", "o", "l">> :> <<"B", "O", "O", "L", "E", "A", "N">>) @@
    (<<"d", "a", "t", "e">> :> <<"D", "A", "T", "E">>) @@
    (<<"t", "i", "m", "e">> :> <<"T", "I", "M", "E">>) @@
    (<<"d", "a", "t", "e", "t", "i", "m", "e">> :> <<"T", "I", "M", "E", "S", "T", "A", "M", "P">>) @@
    (<<"t", "i", "m", "e", "s", "t", "a", "m", "p">> :> <<"T", "I", "M", "E", "S", "T", "A", "M", "P">>) @@
    (<<"t", "i", "m", "e", "s", "t", "a", "m", "p", "t", "z">> :> <<"T", "I", "M", "E", "S", "T", "A", "M", "P", "T", "Z">>) @@
    (<<"u", "u", "i", "d">> :> <<"U", "U", "I", "D">>) @@
    (<<"j", "s", "o", "n">> :> <<"J", "S", "O", "N">>) @@
    (<<"j", "s", "o", "n", "b">> :> <<"J", "S", "O", "N", "B">>) @@
    (<<"b", "y", "t", "e", "a">> :> <<"B", "Y", "T", "E", "A">>) @@
    (<<"b", "l", "o", "b">> :> <<"B", "Y", "T", "E", "A">>)

TEXT == <<"T", "E", "X", "T">>
\* what a failed method call on a value that is no string throws
TypeError == <<"TypeError: pgBaseType.includes is not a function">>
\* obj[key] || fallback, the value as the text it has in a template literal:
\* an inherited function or object is one element that is no character
PropertyOrText(obj, key, fallback) ==
    IF key \in DOMAIN obj THEN obj[key]
    ELSE IF PropertyOf(obj, key) # Undefined THEN <<PropertyOf(obj, key)[1]>>
    ELSE fallback
\* a value that is a string: all its elements are characters
IsString(v) == \A k \in 1..Len(v) : v[k] \in Alphabet

\* /^(\w+)\((.+)\)$/
WordChar == Letter \cup Digit \cup {"_"}
PARAMETERIZED == <<Plus(Cls(WordChar)), Lit(<<"(">>), Plus(Cls(Alphabet)), Lit(<<")">>)>>

mapType(mermaidType) ==
    LET normalized == trim(toLowerCase(mermaidType))
        paramMatch == Match(PARAMETERIZED, normalized)
        baseType == Group(normalized, paramMatch, 1)
        params == Group(normalized, paramMatch, 3)
        pgBaseType == PropertyOf(TYPE_MAPPING, baseType)
    IN  IF endsWith(normalized, <<"[", "]">>)
        THEN PropertyOrText(TYPE_MAPPING, SubSeq(normalized, 1, Len(normalized) - 2), TEXT)
                \o <<"[", "]">>
        ELSE IF paramMatch # Undefined /\ pgBaseType # Undefined
        THEN (IF baseType \notin DOMAIN TYPE_MAPPING THEN TypeError
              ELSE IF includes(pgBaseType[1], "(")
              THEN split(pgBaseType[1], "(")[1] \o <<"(">> \o params \o <<")">>
              ELSE pgBaseType[1] \o <<"(">> \o params \o <<")">>)
        ELSE PropertyOrText(TYPE_MAPPING, normalized, TEXT)

\* the type tokens of the model: a base name, optional parameters, array suffixes
TypeBases ==
    {<<"i", "n", "t">>,
     <<"I", "n", "t">>,
     <<"v", "a", "r", "c", "h", "a", "r">>,
     <<"d", "e", "c", "i", "m", "a", "l">>,
     <<"t", "e", "x", "t">>,
     <<"f", "o", "o">>,
     <<"c", "o", "n", "s", "t", "r", "u", "c", "t", "o", "r">>,
     <<"b", "o", "o", "l">>}
TypeParams == {<<>>, <<"(", "9", ")">>, <<"(", "5", ",", "1", ")">>}
RECURSIVE ArraySuffix(_)
ArraySuffix(n) == IF n = 0 THEN <<>> ELSE <<"[", "]">> \o ArraySuffix(n - 1)
TypeTokens ==
    {b \o q \o ArraySuffix(n) : b \in TypeBases, q \in TypeParams, n \in 0..MaxArrayDepth}

InitTypes ==
    /\ pc = "call"
    /\ ParserIdle
    /\ ServiceIdle
    /\ ret = Undefined
    /\ op = "mapType"
    /\ args \in TypeTokens

CallMapType == Returns("mapType", mapType(args))

NextTypes == CallMapType

SpecTypes == InitTypes /\ [][NextTypes]_vars

\* C14: mapType returns a non-empty string for every token, and TEXT for a
\* token that is not array-form, not a parameterized form of a type of the
\* table, and not in the table.
C14_MapTypeTotal ==
    Returned("mapType") =>
        LET n == trim(toLowerCase(args))
            pm == Match(PARAMETERIZED, n)
        IN  /\ ret[1] # TypeError
            /\ IsString(ret[1])
            /\ ret[1] # <<>>
            /\ (/\ ~endsWith(n, <<"[", "]">>)
                /\ ~(pm # Undefined /\ Group(n, pm, 1) \in DOMAIN TYPE_MAPPING)
                /\ n \notin DOMAIN TYPE_MAPPING)
               => ret[1] = TEXT

\* C15: for a token t of the model, mapType(t[]) is mapType(t) followed by [].
C15_ArrayMapsBase ==
    (Returned("mapType") /\ endsWith(args, <<"[", "]">>)) =>
        ret[1] = mapType(SubSeq(args, 1, Len(args) - 2)) \o <<"[", "]">>

(***************************************************************************)
(* toTableName, toColumnName, generateCreateTable, generateForeignKeys     *)
(* A statement is the text of its template literal: the fixed pieces of    *)
(* the template are single elements, the interpolated names are spliced in *)
(* character by character.                                                 *)
(***************************************************************************)
\* Most attributes of an entity that the model passes to generateCreateTable.
MaxAttrs == 2

\* s.replace(/([a-z])([A-Z])/g, '$1_$2')
RECURSIVE snakeBoundaries(_)
snakeBoundaries(s) ==
    IF Len(s) < 2 THEN s
    ELSE IF s[1] \in Lower /\ s[2] \in Upper
    THEN <<s[1], "_", s[2]>> \o snakeBoundaries(SubSeq(s, 3, Len(s)))
    ELSE <<s[1]>> \o snakeBoundaries(Tail(s))
\* s.replace(/[-\s]+/g, '_')
RECURSIVE dropRun(_)
dropRun(s) == IF s # <<>> /\ Head(s) \in Ws \cup {"-"} THEN dropRun(Tail(s)) ELSE s
RECURSIVE collapseSeparators(_)
collapseSeparators(s) ==
    IF s = <<>> THEN <<>>
    ELSE IF Head(s) \in Ws \cup {"-"} THEN <<"_">> \o collapseSeparators(dropRun(s))
    ELSE <<Head(s)>> \o collapseSeparators(Tail(s))

toTableName_KeepCase(entityName) == collapseSeparators(snakeBoundaries(entityName))
toTableName(entityName) == toLowerCase(collapseSeparators(snakeBoundaries(entityName)))
toColumnName(attributeName) == toLowerCase(collapseSeparators(snakeBoundaries(attributeName)))

\* parts.join(sep)
RECURSIVE join(_, _)
join(parts, sep) ==
    IF parts = <<>> THEN <<>>
    ELSE IF Len(parts) = 1 THEN parts[1]
    ELSE parts[1] \o sep \o join(Tail(parts), sep)

hasKey(a, key) == includes(a.keys, key)

ColumnDefinition(attr) ==
    <<"  \"">> \o toColumnName(attr.name) \o <<"\" ">> \o mapType(attr.type)
        \o (IF hasKey(attr, "PK") THEN <<" NOT NULL">> ELSE <<>>)
PrimaryKeyConstraint(attrs) ==
    <<"  PRIMARY KEY (">>
        \o join([k \in 1..Len(attrs) |-> <<"\"">> \o toColumnName(attrs[k].name) \o <<"\"">>],
                <<", ">>)
        \o <<")">>
UniqueConstraint(attr) == <<"  UNIQUE (\"">> \o toColumnName(attr.name) \o <<"\")">>
CreateTableStatement(tableName, allParts) ==
    <<"CREATE TABLE IF NOT EXISTS \"">> \o tableName \o <<"\" (\n">>
        \o join(allParts, <<",\n">>) \o <<"\n);">>

generateCreateTable(entity) ==
    LET tableName == toTableName(entity.name)
        attrs == entity.attributes
        columns == [k \in 1..Len(attrs) |-> ColumnDefinition(attrs[k])]
        pkColumns == SelectSeq(attrs, LAMBDA a : hasKey(a, "PK"))
        ukColumns == SelectSeq(attrs, LAMBDA a : hasKey(a, "UK") /\ ~hasKey(a, "PK"))
        constraints ==
            (IF Len(pkColumns) > 0 THEN <<PrimaryKeyConstraint(pkColumns)>> ELSE <<>>)
                \o [k \in 1..Len(ukColumns) |-> UniqueConstraint(ukColumns[k])]
    IN  IF \E k \in 1..Len(attrs) : mapType(attrs[k].type) = TypeError
        THEN TypeError
        ELSE CreateTableStatement(tableName, columns \o constraints)

ForeignKeyStatement(tableName, colName, refTable, refColumn) ==
    <<"ALTER TABLE \"">> \o tableName \o <<"\" ADD CONSTRAINT \"">>
        \o <<"fk_">> \o tableName \o <<"_">> \o colName
        \o <<"\" FOREIGN KEY (\"">> \o colName \o <<"\") REFERENCES \"">> \o refTable
        \o <<"\" (\"">> \o refColumn \o <<"\") ON DELETE CASCADE;">>

\* new Map(pairs): the keys in first-insertion order, each with its last value
RECURSIVE newMap(_)
newMap(pairs) ==
    IF pairs = <<>> THEN <<>>
    ELSE LET init == newMap(SubSeq(pairs, 1, Len(pairs) - 1))
             last == pairs[Len(pairs)]
         IN  IF \E k \in 1..Len(init) : init[k].key = last.key
             THEN [k \in 1..Len(init) |-> IF init[k].key = last.key THEN last ELSE init[k]]
             ELSE Append(init, last)

\* attrs.find(a => a.keys.includes('PK'))
findPK(attrs) ==
    LET pks == SelectSeq(attrs, LAMBDA a : hasKey(a, "PK"))
    IN  IF pks = <<>> THEN Undefined ELSE Some(pks[1])

ID == <<"i", "d">>
\* the statement of the FK column fkCol of the table, or none
ForeignKeyOf(entityMap, tableName, fkCol) ==
    LET colName == toColumnName(fkCol.name)
        possibleTable == SubSeq(colName, 1, Len(colName) - 3)
        found == SelectSeq(entityMap, LAMBDA p : toTableName(p.key) = possibleTable)
        refPk == findPK(found[1].value.attributes)
        refColumn == IF refPk # Undefined THEN toColumnName(refPk[1].name) ELSE ID
    IN  IF endsWith(colName, <<"_", "i", "d">>) /\ found # <<>> /\ possibleTable # <<>>
        THEN <<ForeignKeyStatement(tableName, colName, possibleTable, refColumn)>>
        ELSE <<>>

RECURSIVE ForeignKeysOfColumns(_, _, _, _)
ForeignKeysOfColumns(entityMap, tableName, fkColumns, k) ==
    IF k > Len(fkColumns) THEN <<>>
    ELSE ForeignKeyOf(entityMap, tableName, fkColumns[k])
            \o ForeignKeysOfColumns(entityMap, tableName, fkColumns, k + 1)

RECURSIVE ForeignKeysFrom(_, _, _)
ForeignKeysFrom(entityMap, ents, k) ==
    IF k > Len(ents) THEN <<>>
    ELSE ForeignKeysOfColumns(entityMap, toTableName(ents[k].name),
                              SelectSeq(ents[k].attributes, LAMBDA a : hasKey(a, "FK")), 1)
            \o ForeignKeysFrom(entityMap, ents, k + 1)

generateForeignKeys(schema) ==
    LET entityMap == newMap([k \in 1..Len(schema.entities) |->
                                [key |-> toLowerCase(schema.entities[k].name),
                                 value |-> schema.entities[k]]])
    IN  ForeignKeysFrom(entityMap, schema.entities, 1)

(***************************************************************************)
(* Calls of the DDL generators on entities and schemas of the shape the    *)
(* parser produces.                                                        *)
(***************************************************************************)
Attr(type, name, keys) == [type |-> type, name |-> name, keys |-> keys, comment |-> Undefined]
Entity(name, attributes) == [name |-> name, alias |-> Undefined, attributes |-> attributes]

ColumnTypes == {<<"i", "n", "t">>, <<"v", "a", "r", "c", "h", "a", "r", "(", "9", ")">>, <<"c", "o", "n", "s", "t", "r", "u", "c", "t", "o", "r", "(", "9", ")">>}
ColumnNames == {<<"i", "d">>, <<"u", "s", "e", "r", "N", "a", "m", "e">>}
KeyLists == {<<>>, <<"PK">>, <<"UK">>, <<"PK", "UK">>, <<"FK">>}
TableAttributes ==
    {Attr(t, n, ks) : t \in ColumnTypes, n \in ColumnNames, ks \in KeyLists}
TableEntities == {Entity(<<"O", "r", "d", "e", "r">>, as) : as \in SeqsUpTo(TableAttributes, MaxAttrs)}

ReferencedNames == {<<"C", "u", "s", "t", "o", "m", "e", "r">>, <<"O", "r", "d", "e", "r", "I", "t", "e", "m">>, <<"c", "u", "s", "t", "o", "m", "e", "r">>}
ReferencedAttributes ==
    {<<>>,
     <<Attr(<<"i", "n", "t">>, <<"i", "d">>, <<"PK">>)>>,
     <<Attr(<<"i", "n", "t">>, <<"n", "a", "m", "e">>, <<>>), Attr(<<"i", "n", "t">>, <<"c", "u", "s", "t", "o", "m", "e", "r", "N", "o">>, <<"PK">>)>>}
ReferringColumns == {<<"c", "u", "s", "t", "o", "m", "e", "r", "_", "i", "d">>, <<"o", "r", "d", "e", "r", "_", "i", "t", "e", "m", "_", "i", "d">>, <<"o", "r", "d", "e", "r", "i", "t", "e", "m", "_", "i", "d">>, <<"c", "u", "s", "t", "o", "m", "e", "r", "I", "d">>, <<"t", "o", "t", "a", "l">>}
ReferringKeys == {<<"FK">>, <<>>, <<"PK", "FK">>}
Schemas ==
    {[entities |-> <<Entity(rn, ras), Entity(<<"L", "i", "n", "e">>, <<Attr(<<"i", "n", "t">>, c, ks)>>)>>,
      relationships |-> <<>>] :
        rn \in ReferencedNames, ras \in ReferencedAttributes,
        c \in ReferringColumns, ks \in ReferringKeys}

\* Longest identifier that the model passes to toTableName and toColumnName.
MaxIdentLen == 4
Identifiers == SeqsUpTo({"a", "B", "-", " ", "_"}, MaxIdentLen)

InitDDL ==
    /\ pc = "call"
    /\ ParserIdle
    /\ ServiceIdle
    /\ ret = Undefined
    /\ \/ op = "generateCreateTable" /\ args \in TableEntities
       \/ op = "generateForeignKeys" /\ args \in Schemas
       \/ op \in {"toTableName", "toColumnName"} /\ args \in Identifiers

CallGenerateCreateTable == Returns("generateCreateTable", generateCreateTable(args))
CallGenerateForeignKeys == Returns("generateForeignKeys", generateForeignKeys(args))

CallToTableName == Returns("toTableName", toTableName(args))
CallToColumnName == Returns("toColumnName", toColumnName(args))

NextDDL ==
    \/ CallGenerateCreateTable
    \/ CallGenerateForeignKeys
    \/ CallToTableName
    \/ CallToColumnName

SpecDDL == InitDDL /\ [][NextDDL]_vars

\* C16: the CREATE TABLE statement of an entity has one column definition per
\* attribute in declaration order (NOT NULL exactly on PK attributes), then one
\* PRIMARY KEY constraint over all PK columns when there is one, then one UNIQUE
\* constraint per attribute that is UK and not PK.
C16_CreateTableStructure ==
    Returned("generateCreateTable") =>
        LET as == args.attributes
            Column(a) == <<"  \"">> \o toColumnName(a.name) \o <<"\" ">> \o mapType(a.type)
                            \o (IF "PK" \in {a.keys[k] : k \in 1..Len(a.keys)}
                                THEN <<" NOT NULL">> ELSE <<>>)
            pks == SelectSeq(as, LAMBDA a : "PK" \in {a.keys[k] : k \in 1..Len(a.keys)})
            uks == SelectSeq(as, LAMBDA a : /\ "UK" \in {a.keys[k] : k \in 1..Len(a.keys)}
                                            /\ "PK" \notin {a.keys[k] : k \in 1..Len(a.keys)})
            parts == [k \in 1..Len(as) |-> Column(as[k])]
                        \o (IF pks # <<>> THEN <<PrimaryKeyConstraint(pks)>> ELSE <<>>)
                        \o [k \in 1..Len(uks) |-> UniqueConstraint(uks[k])]
        IN  ret[1] = CreateTableStatement(toTableName(args.name), parts)

\* C16, where every attribute type maps to a column type: the same structure.
C16_StructureWhenTypesMap ==
    (/\ Returned("generateCreateTable")
     /\ \A k \in 1..Len(args.attributes) : mapType(args.attributes[k].type) # TypeError)
        => C16_CreateTableStructure

\* C17: a constraint is emitted for an FK attribute exactly when its column
\* name ends in _id and the rest is the table name of an entity of the schema;
\* it references that table and that entity's first PK column, or id.
C17_ForeignKeyIffTableExists ==
    Returned("generateForeignKeys") =>
        LET es == args.entities
            Target(col) ==
                SelectSeq(es, LAMBDA e : toTableName(e.name) \o <<"_", "i", "d">> = col)
            StatementsOf(e) ==
                LET fks == SelectSeq(e.attributes, LAMBDA a : hasKey(a, "FK"))
                    One(a) ==
                        LET col == toColumnName(a.name)
                            t == Target(col)
                        IN  IF t = <<>> THEN <<>>
                            ELSE <<ForeignKeyStatement(
                                     toTableName(e.name), col, toTableName(t[1].name),
                                     IF findPK(t[1].attributes) # Undefined
                                     THEN toColumnName(findPK(t[1].attributes)[1].name)
                                     ELSE ID)>>
                IN  IF fks = <<>> THEN <<>> ELSE One(fks[1])
        IN  ret[1] = StatementsOf(es[1]) \o StatementsOf(es[2])

(***************************************************************************)
(* The query builder.  A query is [sql, params]; the SQL text is built as  *)
(* the statements above are.  A data object is the sequence of its         *)
(* key/value pairs in the order they were supplied, with distinct keys.    *)
(***************************************************************************)
\* Most keys of a data object that the model passes to insert and update.
MaxKeys == 3

DigitSeq == <<"0", "1", "2", "3", "4", "5", "6", "7", "8", "9">>
\* `${n}` for a non-negative integer n
RECURSIVE numberText(_)
numberText(n) ==
    IF n < 10 THEN <<DigitSeq[n + 1]>>
    ELSE numberText(n \div 10) \o <<DigitSeq[(n % 10) + 1]>>
\* the integer that an integer-like property key denotes
RECURSIVE textNumber(_)
textNumber(t) ==
    IF t = <<>> THEN 0
    ELSE 10 * textNumber(SubSeq(t, 1, Len(t) - 1))
            + ((CHOOSE d \in 1..10 : DigitSeq[d] = t[Len(t)]) - 1)
IsIntegerKey(key) ==
    /\ key # <<>>
    /\ \A k \in 1..Len(key) : key[k] \in Digit
    /\ (Len(key) > 1 => key[1] # "0")
RECURSIVE ascending(_)
ascending(keys) ==
    IF keys = <<>> THEN <<>>
    ELSE LET least == CHOOSE k \in 1..Len(keys) :
                          \A j \in 1..Len(keys) : textNumber(keys[k]) <= textNumber(keys[j])
         IN  <<keys[least]>>
                \o ascending(SubSeq(keys, 1, least - 1) \o SubSeq(keys, least + 1, Len(keys)))
\* Object.keys(data): integer-like keys in ascending order, then the others
\* in the order they were supplied
ObjectKeys(data) ==
    LET keys == [k \in 1..Len(data) |-> data[k].key]
    IN  ascending(SelectSeq(keys, IsIntegerKey))
            \o SelectSeq(keys, LAMBDA key : ~IsIntegerKey(key))
\* data[key] for an own key
ValueOf(data, key) == data[CHOOSE k \in 1..Len(data) : data[k].key = key].value

\* `${undefined}`
UndefinedText == <<"undefined">>

buildQueryConfig(entity) ==
    LET attrs == entity.attributes
        columns == [k \in 1..Len(attrs) |-> toColumnName(attrs[k].name)]
        pkAttr == findPK(attrs)
    IN  [tableName |-> toTableName(entity.name),
         columns |-> columns,
         primaryKey |-> IF pkAttr # Undefined THEN toColumnName(pkAttr[1].name)
                        ELSE IF columns # <<>> THEN columns[1] ELSE UndefinedText]

\* options?.key, where the key is set
HasOption(options, key) == options # Undefined /\ key \in DOMAIN options[1]

ASC == <<"A", "S", "C">>
DESC == <<"D", "E", "S", "C">>

selectAll(config, options) ==
    LET base == <<"SELECT * FROM \"">> \o config.tableName \o <<"\"">>
        ordered == HasOption(options, "orderBy") /\ options[1]["orderBy"] # <<>>
        orderDir == IF HasOption(options, "orderDir") /\ options[1]["orderDir"] # <<>>
                    THEN options[1]["orderDir"] ELSE ASC
        sql1 == IF ordered
                THEN base \o <<" ORDER BY \"">> \o options[1]["orderBy"] \o <<"\" ">> \o orderDir
                ELSE base
        limited == HasOption(options, "limit") /\ options[1]["limit"] # 0
        sql2 == IF limited THEN sql1 \o <<" LIMIT $">> \o numberText(0 + 1) ELSE sql1
        params2 == IF limited THEN <<options[1]["limit"]>> ELSE <<>>
        skipped == HasOption(options, "offset") /\ options[1]["offset"] # 0
        sql3 == IF skipped THEN sql2 \o <<" OFFSET $">> \o numberText(Len(params2) + 1) ELSE sql2
        params3 == IF skipped THEN Append(params2, options[1]["offset"]) ELSE params2
    IN  [sql |-> sql3, params |-> params3]

selectById(config, id) ==
    [sql |-> <<"SELECT * FROM \"">> \o config.tableName \o <<"\" WHERE \"">>
                \o config.primaryKey \o <<"\" = $1">>,
     params |-> <<id>>]

insert(config, data) ==
    LET keys == SelectSeq(ObjectKeys(data), LAMBDA key : includes(config.columns, key))
        values == [k \in 1..Len(keys) |-> ValueOf(data, keys[k])]
        placeholders == [k \in 1..Len(keys) |-> <<"$">> \o numberText((k - 1) + 1)]
    IN  [sql |-> <<"INSERT INTO \"">> \o config.tableName \o <<"\" (">>
                    \o join([k \in 1..Len(keys) |-> <<"\"">> \o keys[k] \o <<"\"">>], <<", ">>)
                    \o <<") VALUES (">> \o join(placeholders, <<", ">>) \o <<") RETURNING *">>,
         params |-> values]

update_KeepPrimaryKey(config, id, data) ==
    LET keys == SelectSeq(ObjectKeys(data), LAMBDA key : includes(config.columns, key))
        values == [k \in 1..Len(keys) |-> ValueOf(data, keys[k])]
        setClauses == [k \in 1..Len(keys) |->
                          <<"\"">> \o keys[k] \o <<"\" = $">> \o numberText((k - 1) + 1)]
    IN  [sql |-> <<"UPDATE \"">> \o config.tableName \o <<"\" SET ">>
                    \o join(setClauses, <<", ">>) \o <<" WHERE \"">> \o config.primaryKey
                    \o <<"\" = $">> \o numberText(Len(keys) + 1) \o <<" RETURNING *">>,
         params |-> Append(values, id)]
update(config, id, data) ==
    LET keys == SelectSeq(ObjectKeys(data),
                          LAMBDA key : includes(config.columns, key) /\ key # config.primaryKey)
        values == [k \in 1..Len(keys) |-> ValueOf(data, keys[k])]
        setClauses == [k \in 1..Len(keys) |->
                          <<"\"">> \o keys[k] \o <<"\" = $">> \o numberText((k - 1) + 1)]
    IN  [sql |-> <<"UPDATE \"">> \o config.tableName \o <<"\" SET ">>
                    \o join(setClauses, <<", ">>) \o <<" WHERE \"">> \o config.primaryKey
                    \o <<"\" = $">> \o numberText(Len(keys) + 1) \o <<" RETURNING *">>,
         params |-> Append(values, id)]

deleteById(config, id) ==
    [sql |-> <<"DELETE FROM \"">> \o config.tableName \o <<"\" WHERE \"">>
                \o config.primaryKey \o <<"\" = $1 RETURNING *">>,
     params |-> <<id>>]

count(config) ==
    [sql |-> <<"SELECT COUNT(*) as count FROM \"">> \o config.tableName \o <<"\"">>,
     params |-> <<>>]

(***************************************************************************)
(* Calls of the query builder on the configurations of two entities.       *)
(***************************************************************************)
QueryEntities ==
    {Entity(<<"O", "r", "d", "e", "r">>, <<Attr(<<"i", "n", "t">>, <<"i", "d">>, <<"PK">>),
                         Attr(<<"s", "t", "r", "i", "n", "g">>, <<"u", "s", "e", "r", "N", "a", "m", "e">>, <<>>),
                         Attr(<<"i", "n", "t">>, <<"t", "o", "t", "a", "l">>, <<>>)>>),
     Entity(<<"O", "r", "d", "e", "r", "I", "t", "e", "m">>, <<Attr(<<"i", "n", "t">>, <<"t", "o", "t", "a", "l">>, <<>>),
                             Attr(<<"i", "n", "t">>, <<"i", "d">>, <<"FK">>)>>)}
Configs == {buildQueryConfig(e) : e \in QueryEntities}

OptionKeys == {"limit", "offset", "orderBy", "orderDir"}
OptionValues ==
    [limit : {0, 5}, offset : {0, 2},
     orderBy : {<<"i", "d">>, <<"t", "o", "t", "a", "l">>, <<"i", "d", "\"", " ", "-", "-">>},
     orderDir : {ASC, DESC}]
Options ==
    {Undefined} \cup {Some([k \in S |-> o[k]]) : S \in SUBSET OptionKeys, o \in OptionValues}

Ids == {1, 2}
DataKeys == {<<"i", "d">>, <<"u", "s", "e", "r", "_", "n", "a", "m", "e">>, <<"t", "o", "t", "a", "l">>, <<"b", "o", "g", "u", "s">>, <<"7">>}
DataValues == {1, 2}
Data ==
    {d \in SeqsUpTo([key : DataKeys, value : DataValues], MaxKeys) :
        \A j, k \in 1..Len(d) : d[j].key = d[k].key => j = k}

\* the entities of a parsed schema: declared with attributes, or created by a
\* relationship line or a bare name and left without attributes
ConfigEntities ==
    QueryEntities \cup {ImplicitEntity(<<"B">>), ImplicitEntity(<<"O", "r", "d", "e", "r">>)}

\* the arguments of the calls of an operation
QueryCalls(f) ==
    CASE f = "selectAll" -> [config : Configs, options : Options]
      [] f = "selectById" -> [config : Configs, id : Ids]
      [] f = "insert" -> [config : Configs, data : Data]
      [] f = "update" -> [config : Configs, id : Ids, data : Data]
      [] f = "deleteById" -> [config : Configs, id : Ids]
      [] f = "count" -> [config : Configs]
      [] f = "buildQueryConfig" -> [entity : ConfigEntities]
QueryOps == {"selectAll", "selectById", "insert", "update", "deleteById", "count"}

\* the query that operation f builds from arguments a
QueryOf(f, a) ==
    CASE f = "selectAll" -> selectAll(a.config, a.options)
      [] f = "selectById" -> selectById(a.config, a.id)
      [] f = "insert" -> insert(a.config, a.data)
      [] f = "update" -> update(a.config, a.id, a.data)
      [] f = "deleteById" -> deleteById(a.config, a.id)
      [] f = "count" -> count(a.config)

InitQuery ==
    /\ pc = "call"
    /\ ParserIdle
    /\ ServiceIdle
    /\ ret = Undefined
    /\ op \in QueryOps \cup {"buildQueryConfig"}
    /\ args \in QueryCalls(op)

CallSelectAll == Returns("selectAll", selectAll(args.config, args.options))
CallSelectById == Returns("selectById", selectById(args.config, args.id))
CallInsert == Returns("insert", insert(args.config, args.data))
CallUpdate == Returns("update", update(args.config, args.id, args.data))
CallDeleteById == Returns("deleteById", deleteById(args.config, args.id))
CallCount == Returns("count", count(args.config))
CallBuildQueryConfig == Returns("buildQueryConfig", buildQueryConfig(args.entity))

NextQuery ==
    \/ CallSelectAll
    \/ CallSelectById
    \/ CallInsert
    \/ CallUpdate
    \/ CallDeleteById
    \/ CallCount
    \/ CallBuildQueryConfig

SpecQuery == InitQuery /\ [][NextQuery]_vars

\* C18: selectAll appends LIMIT and then OFFSET, each with a numbered
\* placeholder, whenever the option is supplied (0 included); the placeholders
\* count from $1 in the order LIMIT, OFFSET and params holds the supplied
\* values in that order.
C18_LimitOffsetWheneverSupplied ==
    Returned("selectAll") =>
        LET o == args.options
            hasLimit == HasOption(o, "limit")
            hasOffset == HasOption(o, "offset")
            clauses ==
                (IF hasLimit THEN <<" LIMIT $", "1">> ELSE <<>>)
                    \o (IF hasOffset
                        THEN <<" OFFSET $", IF hasLimit THEN "2" ELSE "1">> ELSE <<>>)
            sql == ret[1].sql
            before == SubSeq(sql, 1, Len(sql) - Len(clauses))
        IN  /\ ret[1].params = (IF hasLimit THEN <<o[1]["limit"]>> ELSE <<>>)
                                  \o (IF hasOffset THEN <<o[1]["offset"]>> ELSE <<>>)
            /\ endsWith(sql, clauses)
            /\ \A k \in 1..Len(before) : before[k] \notin {" LIMIT $", " OFFSET $"}

\* the keys of a data object that are columns of the configuration, in the
\* order they were supplied
KnownKeys(config, data) ==
    SelectSeq([k \in 1..Len(data) |-> data[k].key],
              LAMBDA key : \E c \in 1..Len(config.columns) : config.columns[c] = key)
\* two calls of one operation on the same entity that differ only in the
\* supplied values
SameShape(a, b) ==
    /\ a.config = b.config
    /\ "options" \in DOMAIN a =>
          /\ (a.options = Undefined) = (b.options = Undefined)
          /\ a.options # Undefined => DOMAIN a.options[1] = DOMAIN b.options[1]
    /\ "data" \in DOMAIN a => KnownKeys(a.config, a.data) = KnownKeys(b.config, b.data)

\* C19: two calls of a query-builder operation that differ only in the
\* supplied values build the same SQL text.
C19_ValuesNeverInSqlText ==
    (pc = "returned" /\ op \in QueryOps) =>
        \A other \in QueryCalls(op) :
            SameShape(args, other) => QueryOf(op, other).sql = ret[1].sql

\* C20: insert and update name exactly the supplied keys that are columns
\* (update without the primary key column) in supplied order, with
\* placeholders $1..$n and the values in params in that order; update passes
\* the id last, as $(n+1).
C20_InsertUpdateKnownKeys ==
    LET config == args.config
        Quoted(key) == <<"\"">> \o key \o <<"\"">>
    IN  /\ Returned("insert") =>
            LET keys == KnownKeys(config, args.data)
                n == Len(keys)
            IN  /\ ret[1].params = [k \in 1..n |-> ValueOf(args.data, keys[k])]
                /\ ret[1].sql =
                       <<"INSERT INTO \"">> \o config.tableName \o <<"\" (">>
                           \o join([k \in 1..n |-> Quoted(keys[k])], <<", ">>)
                           \o <<") VALUES (">>
                           \o join([k \in 1..n |-> <<"$", DigitSeq[k + 1]>>], <<", ">>)
                           \o <<") RETURNING *">>
        /\ Returned("update") =>
            LET keys == SelectSeq(KnownKeys(config, args.data),
                                  LAMBDA key : key # config.primaryKey)
                n == Len(keys)
            IN  /\ ret[1].params = [k \in 1..n |-> ValueOf(args.data, keys[k])] \o <<args.id>>
                /\ ret[1].sql =
                       <<"UPDATE \"">> \o config.tableName \o <<"\" SET ">>
                           \o join([k \in 1..n |->
                                       <<"\"">> \o keys[k] \o <<"\" = $", DigitSeq[k + 1]>>],
                                   <<", ">>)
                           \o <<" WHERE \"">> \o config.primaryKey
                           \o <<"\" = $", DigitSeq[n + 2], " RETURNING *">>

\* an update whose data names the primary key, an unknown key and a column
C20_Witness ==
    /\ Returned("update")
    /\ Len(args.data) = 3
    /\ \E k \in 1..3 : args.data[k].key = args.config.primaryKey
    /\ \E k \in 1..3 : ~includes(args.config.columns, args.data[k].key)
    /\ Len(ret[1].params) = 2

\* C21: the primary key column that buildQueryConfig derives for an entity of a
\* parsed schema is one of the entity's columns: the column of the first PK
\* attribute, else the first column.
C21_PrimaryKeyIsAColumn ==
    Returned("buildQueryConfig") =>
        LET attrs == args.entity.attributes
            pks == {k \in 1..Len(attrs) : hasKey(attrs[k], "PK")}
            first == IF pks # {} THEN CHOOSE k \in pks : \A j \in pks : k <= j ELSE 1
        IN  /\ \E c \in 1..Len(ret[1].columns) : ret[1].columns[c] = ret[1].primaryKey
            /\ ret[1].columns = [k \in 1..Len(attrs) |-> toColumnName(attrs[k].name)]
            /\ ret[1].primaryKey = ret[1].columns[first]

\* C22: the output of toTableName and of toColumnName has no uppercase
\* letter, hyphen or whitespace, and normalizing it again returns it unchanged.
C22_NormalizerIdempotent ==
    LET Normal(t) == \A k \in 1..Len(t) : t[k] \notin Upper \cup Ws \cup {"-"}
    IN  /\ Returned("toTableName") => Normal(ret[1]) /\ toTableName(ret[1]) = ret[1]
        /\ Returned("toColumnName") => Normal(ret[1]) /\ toColumnName(ret[1]) = ret[1]

\* a name with a camelCase boundary and a run of separators was normalized
C22_Witness ==
    /\ Returned("toTableName")
    /\ \E k \in 1..(Len(args) - 1) : args[k] \in Lower /\ args[k + 1] \in Upper
    /\ \E k \in 1..(Len(args) - 1) : args[k] = "-" /\ args[k + 1] = " "
    /\ ret[1] # args

\* what a line is outside a block, once the header was read
LineKind(l) ==
    LET M == Matches[l]
    IN  IF M.EMPTY \/ M.COMMENT THEN "skip"
        ELSE IF M.ER_DIAGRAM_START THEN "header"
        ELSE IF M.DIRECTION THEN "direction"
        ELSE IF M.ENTITY_BLOCK_END THEN "blockEnd"
        ELSE IF M.ENTITY_BLOCK_START # Undefined THEN "blockStart"
        ELSE IF M.RELATIONSHIP # Undefined THEN "relationship"
        ELSE IF M.STANDALONE_ENTITY # Undefined THEN "standalone"
        ELSE "unrecognized"

\* C24: an open block is left only by a closing-brace line (or the end of the
\* input); a block-open line, a relationship line or a standalone entity line
\* read inside the block is taken as an attribute line - one attribute or one
\* error - and changes neither the entity table nor the relationships, and
\* the entity in progress stays the same entity.
C24_BlockLeftOnlyByClose ==
    [][/\ (ReadStep /\ BlockOpen /\ ~BlockOpen') => Matches[rawLine'].ENTITY_BLOCK_END
       /\ (/\ ReadStep
           /\ inERDiagram
           /\ BlockOpen
           /\ LineKind(rawLine') \in {"blockStart", "relationship", "standalone"}) =>
              /\ BlockOpen'
              /\ entities' = entities
              /\ relationships' = relationships
              /\ currentEntity'[1].name = currentEntity[1].name
              /\ currentEntity'[1].alias = currentEntity[1].alias
              /\ \/ /\ Len(currentEntity'[1].attributes) = Len(currentEntity[1].attributes) + 1
                    /\ SubSeq(currentEntity'[1].attributes, 1, Len(currentEntity[1].attributes))
                          = currentEntity[1].attributes
                    /\ errors' = errors
                 \/ /\ currentEntity' = currentEntity
                    /\ Len(errors') = Len(errors) + 1]_vars

\* two lines of these kinds were read inside the block of A, the second a
\* block-open line: two errors, no entity and no relationship recorded, and
\* the block of A is still open
C24_Witness ==
    /\ pc = "loop"
    /\ BlockOpen
    /\ currentEntity[1].name = NameA
    /\ rawLine = L_openB
    /\ Len(errors) = 2
    /\ relationships = <<>>
    /\ entities = <<>>
    /\ lineNumber = 4

\* C25: the entity names of the returned schema are pairwise distinct, and the
\* errors of validateERDiagram are the parse errors and, at most, the missing
\* declaration: no duplicate-name error and no non-existent-entity error.
C25_OnlyParseAndDeclarationErrors ==
    /\ pc \in {"done", "validated"} =>
          \A j, k \in 1..Len(Schema.entities) :
              Schema.entities[j].name = Schema.entities[k].name => j = k
    /\ pc = "validated" =>
          validation[1].errors =
              errors \o (IF hasDeclaration THEN <<>> ELSE <<MissingDeclaration>>)

\* B was created by a relationship line and then declared by a block: the
\* schema has A and B once each and the validation reports nothing
C25_Witness ==
    /\ pc = "validated"
    /\ Len(relationships) = 1
    /\ Len(Schema.entities) = 2
    /\ Schema.entities[1].name = NameA
    /\ Schema.entities[2].name = NameB
    /\ Schema.entities[2].alias # Undefined
    /\ validation[1] = [valid |-> TRUE, errors |-> <<>>]

\* C26: when validateERDiagram returns valid = true, the parser has read a
\* header line.
C26_ValidImpliesHeaderRead ==
    (pc = "validated" /\ validation[1].valid) => inERDiagram

\* the names of an entity table, in its order
NamesOf(ents) == [k \in 1..Len(ents) |-> ents[k].name]

\* C27: the entities of the table, and of the returned schema, stand in the
\* order in which their names were first inserted: a step only adds names at
\* the end, and a block committed under a name already present replaces the
\* entry at its position.
C27_FirstInsertionOrder ==
    /\ [][/\ Len(entities') >= Len(entities)
          /\ SubSeq(NamesOf(entities'), 1, Len(entities)) = NamesOf(entities)
          /\ (/\ BlockOpen
              /\ has(entities, currentEntity[1].name)
              /\ \/ ReturnStep
                 \/ ReadStep /\ ~BlockOpen') =>
                   /\ Len(entities') = Len(entities)
                   /\ \A k \in 1..Len(entities) :
                         entities'[k] = IF entities[k].name = currentEntity[1].name
                                        THEN currentEntity[1] ELSE entities[k]]_vars
    /\ [](pc = "done" => Schema.entities = entities)

\* A and B were created by a relationship line, then a block of A with one
\* attribute was committed: A is still first, with the block's content
C27_Witness ==
    /\ pc = "done"
    /\ rawLine = L_close
    /\ lineNumber = 5
    /\ errors = <<>>
    /\ Len(Schema.relationships) = 1
    /\ NamesOf(Schema.entities) = <<NameA, NameB>>
    /\ Len(Schema.entities[1].attributes) = 1
    /\ Schema.entities[2].attributes = <<>>

(***************************************************************************)
(* generateDropTables, generateSchemaSQL and the database tools.           *)
(* A tool handler runs from await to await: pc is the await it stands at.  *)
(* Every statement sent to the database succeeds or fails, as the database *)
(* decides.  The diagram of a call enters as what parseERDiagram returns   *)
(* for it.                                                                 *)
(***************************************************************************)
\* Most entities of a schema that the model passes to a tool.
MaxTables == 2

generateDropTables(schema) ==
    [k \in 1..Len(schema.entities) |->
        <<"DROP TABLE IF EXISTS \"">> \o toTableName(schema.entities[k].name)
            \o <<"\" CASCADE;">>]

\* generateSchemaSQL throws what a generateCreateTable of it throws
generateSchemaSQLThrows(schema) ==
    \E k \in 1..Len(schema.entities) : generateCreateTable(schema.entities[k]) = TypeError
generateSchemaSQL(schema) ==
    LET createTables == [k \in 1..Len(schema.entities) |->
                            generateCreateTable(schema.entities[k])]
        foreignKeys == generateForeignKeys(schema)
    IN  IF generateSchemaSQLThrows(schema)
        THEN TypeError
        ELSE [createTables |-> createTables,
              foreignKeys |-> foreignKeys,
              dropTables |-> generateDropTables(schema),
              fullScript |->
                  join(<<<<"-- Generated by MCP Mermaid ER Server">>, <<"-- Create Tables">>>>
                          \o createTables
                          \o <<<<>>, <<"-- Foreign Key Constraints">>>>
                          \o foreignKeys,
                       <<"\n\n">>)]

\* getSchema: content is the ParseResult of the diagram text, or Undefined
\* where there is no text; the schema or null
getSchema(content) ==
    IF content = Undefined THEN Undefined
    ELSE IF content[1].success /\ content[1].schema # Undefined
    THEN content[1].schema
    ELSE Undefined

\* sql.match(/"([^"]+)"/)?.[1] on a statement that opens with a quoted name
RECURSIVE upToQuote(_)
upToQuote(t) ==
    IF t = <<>> \/ Head(t) \notin Alphabet \/ Head(t) = "\"" THEN <<>>
    ELSE <<Head(t)>> \o upToQuote(Tail(t))
firstQuoted(sql) ==
    IF upToQuote(Tail(sql)) = <<>> THEN Undefined ELSE Some(upToQuote(Tail(sql)))

\* a statement was sent to the database and it answered
Issued(sql, ok) == db' = Append(db, [sql |-> sql, ok |-> ok])

\* the handler returns v
ToolReturns(v) ==
    /\ ret' = Some(v)
    /\ pc' = "returned"

Failure(error) == [success |-> FALSE, error |-> error]

toolVars == <<op, args, parserVars, server, currentEndpoints, httpServers, calls>>

(***************************************************************************)
(* drop_schema                                                             *)
(***************************************************************************)
\* the handler without its first check
DropSchema_Confirm_Unchecked ==
    /\ op = "drop_schema"
    /\ pc = "call"
    /\ pc' = "configured"
    /\ UNCHANGED <<ret, db, cachedSchema, frame, client, toolVars>>
DropSchema_Confirm ==
    /\ op = "drop_schema"
    /\ pc = "call"
    /\ IF ~args.confirm
       THEN ToolReturns(Failure("Please set confirm: true to drop tables. This action cannot be undone!"))
       ELSE pc' = "configured" /\ UNCHANGED ret
    /\ UNCHANGED <<db, cachedSchema, frame, client, toolVars>>

DropSchema_Configured ==
    /\ op = "drop_schema"
    /\ pc = "configured"
    /\ IF ~args.configured
       THEN ToolReturns(Failure("Database not configured."))
       ELSE pc' = "getSchema" /\ UNCHANGED ret
    /\ UNCHANGED <<db, cachedSchema, frame, client, toolVars>>

DropSchema_GetSchema ==
    /\ op = "drop_schema"
    /\ pc = "getSchema"
    /\ LET schema == getSchema(args.content)
       IN  IF schema = Undefined
           THEN /\ ToolReturns(Failure("No diagram provided and no diagram source configured."))
                /\ UNCHANGED <<cachedSchema, frame>>
           ELSE /\ cachedSchema' = schema
                /\ IF generateSchemaSQLThrows(schema[1])
                   THEN ToolReturns([threw |-> TypeError]) /\ UNCHANGED frame
                   ELSE /\ frame' = Some([sql |-> generateSchemaSQL(schema[1]),
                                          i |-> 1, dropped |-> <<>>])
                        /\ pc' = "drop"
                        /\ UNCHANGED ret
    /\ UNCHANGED <<db, client, toolVars>>

DropSchema_Query ==
    /\ op = "drop_schema"
    /\ pc = "drop"
    /\ frame[1].i <= Len(frame[1].sql.dropTables)
    /\ \E ok \in BOOLEAN :
          LET dropSql == frame[1].sql.dropTables[frame[1].i]
              tableName == firstQuoted(dropSql)
          IN  /\ Issued(dropSql, ok)
              /\ frame' = Some([frame[1] EXCEPT
                                  !.i = @ + 1,
                                  !.dropped = IF ok /\ tableName # Undefined
                                              THEN Append(@, tableName[1]) ELSE @])
    /\ UNCHANGED <<pc, ret, cachedSchema, client, toolVars>>

DropSchema_Return ==
    /\ op = "drop_schema"
    /\ pc = "drop"
    /\ frame[1].i > Len(frame[1].sql.dropTables)
    /\ ToolReturns([success |-> TRUE,
                    message |-> <<"Dropped ">> \o numberText(Len(frame[1].dropped)) \o <<" tables">>,
                    droppedTables |-> frame[1].dropped])
    /\ UNCHANGED <<db, cachedSchema, frame, client, toolVars>>

(***************************************************************************)
(* create_schema and transaction                                           *)
(***************************************************************************)
BEGIN == <<"BEGIN">>
COMMIT == <<"COMMIT">>
ROLLBACK == <<"ROLLBACK">>
\* the error that a failed statement, or a failed pool.connect(), throws
ErrorOf_Statement(sql) == [failed |-> sql]
ConnectError == [failed |-> <<"connect">>]
\* error.message
MessageOf(error) == <<"error: ">> \o error.failed

\* fkSql.match(/CONSTRAINT "([^"]+)"/)?.[1]
RECURSIVE upToChunk(_, _)
upToChunk(t, chunk) ==
    IF t = <<>> \/ Head(t) = chunk THEN <<>> ELSE <<Head(t)>> \o upToChunk(Tail(t), chunk)
constraintName(fkSql) ==
    LET at == indexOf(fkSql, "\" ADD CONSTRAINT \"")
    IN  upToChunk(SubSeq(fkSql, at + 1, Len(fkSql)), "\" FOREIGN KEY (\"")

\* the statements of the callback, in the order it issues them
CallbackStatements(sql, dropExisting) ==
    (IF dropExisting
     THEN [k \in 1..Len(sql.dropTables) |-> [kind |-> "drop", sql |-> sql.dropTables[k]]]
     ELSE <<>>)
    \o [k \in 1..Len(sql.createTables) |-> [kind |-> "create", sql |-> sql.createTables[k]]]
    \o [k \in 1..Len(sql.foreignKeys) |-> [kind |-> "fk", sql |-> sql.foreignKeys[k]]]

CreateSchema_Configured ==
    /\ op = "create_schema"
    /\ pc = "call"
    /\ IF ~args.configured
       THEN ToolReturns(Failure(
                "Database not configured. Set DB_HOST, DB_NAME, DB_USER, DB_PASSWORD in .env"))
       ELSE pc' = "getSchema" /\ UNCHANGED ret
    /\ UNCHANGED <<db, cachedSchema, frame, client, toolVars>>

CreateSchema_GetSchema ==
    /\ op = "create_schema"
    /\ pc = "getSchema"
    /\ LET schema == getSchema(args.content)
       IN  IF schema = Undefined
           THEN /\ ToolReturns(Failure("No diagram provided and no diagram source configured."))
                /\ UNCHANGED <<cachedSchema, frame>>
           ELSE /\ cachedSchema' = schema
                /\ IF generateSchemaSQLThrows(schema[1])
                   THEN ToolReturns([threw |-> TypeError]) /\ UNCHANGED frame
                   ELSE /\ frame' = Some([statements |->
                                              CallbackStatements(generateSchemaSQL(schema[1]),
                                                                 args.dropExisting),
                                          i |-> 1,
                                          results |-> <<>>,
                                          errors |-> <<>>,
                                          error |-> Undefined,
                                          outcome |-> Undefined])
                        /\ pc' = "connect"
                        /\ UNCHANGED ret
    /\ UNCHANGED <<db, client, toolVars>>

\* const client = await pool.connect()
Transaction_Connect ==
    /\ op = "create_schema"
    /\ pc = "connect"
    /\ \E ok \in BOOLEAN :
          IF ok
          THEN /\ client' = Some([released |-> 0])
               /\ pc' = "begin"
               /\ UNCHANGED frame
          ELSE /\ frame' = Some([frame[1] EXCEPT !.outcome = Some([threw |-> ConnectError])])
               /\ pc' = "settled"
               /\ UNCHANGED client
    /\ UNCHANGED <<ret, db, cachedSchema, toolVars>>

\* await client.query('BEGIN')
Transaction_Begin ==
    /\ op = "create_schema"
    /\ pc = "begin"
    /\ \E ok \in BOOLEAN :
          /\ Issued(BEGIN, ok)
          /\ IF ok
             THEN pc' = "callback" /\ UNCHANGED frame
             ELSE /\ frame' = Some([frame[1] EXCEPT !.error = Some(ErrorOf_Statement(BEGIN))])
                  /\ pc' = "rollback"
    /\ UNCHANGED <<ret, cachedSchema, client, toolVars>>

\* one await client.query(...) of the callback, with its try and catch
Callback_Query ==
    /\ op = "create_schema"
    /\ pc = "callback"
    /\ frame[1].i <= Len(frame[1].statements)
    /\ \E ok \in BOOLEAN :
          LET st == frame[1].statements[frame[1].i]
              name == firstQuoted(st.sql)
              f == [frame[1] EXCEPT !.i = @ + 1]
          IN  /\ Issued(st.sql, ok)
              /\ CASE st.kind = "drop" ->
                        /\ frame' = Some(IF ok
                                         THEN [f EXCEPT !.results =
                                                   Append(@, <<"Dropped: ">>
                                                        \o (IF name # Undefined THEN name[1]
                                                            ELSE <<"table">>))]
                                         ELSE f)
                        /\ pc' = pc
                   [] st.kind = "create" ->
                        IF ok
                        THEN /\ frame' = Some([f EXCEPT !.results =
                                                  Append(@, <<"Created table: ">>
                                                        \o (IF name # Undefined THEN name[1]
                                                            ELSE UndefinedText))])
                             /\ pc' = pc
                        ELSE /\ frame' = Some([f EXCEPT
                                                  !.errors = Append(@, <<"Failed to create table: ">>
                                                                        \o MessageOf(ErrorOf_Statement(st.sql))),
                                                  !.error = Some(ErrorOf_Statement(st.sql))])
                             /\ pc' = "rollback"
                   [] st.kind = "fk" ->
                        /\ frame' = Some(IF ok
                                         THEN [f EXCEPT !.results =
                                                   Append(@, <<"Added FK: ">> \o constraintName(st.sql))]
                                         ELSE [f EXCEPT !.errors =
                                                   Append(@, <<"FK warning: ">>
                                                        \o MessageOf(ErrorOf_Statement(st.sql)))])
                        /\ pc' = pc
    /\ UNCHANGED <<ret, cachedSchema, client, toolVars>>

\* await client.query('COMMIT'); return result
Transaction_Commit ==
    /\ op = "create_schema"
    /\ pc = "callback"
    /\ frame[1].i > Len(frame[1].statements)
    /\ \E ok \in BOOLEAN :
          /\ Issued(COMMIT, ok)
          /\ IF ok
             THEN /\ frame' = Some([frame[1] EXCEPT !.outcome = Some([returned |-> TRUE])])
                  /\ pc' = "release"
             ELSE /\ frame' = Some([frame[1] EXCEPT !.error = Some(ErrorOf_Statement(COMMIT))])
                  /\ pc' = "rollback"
    /\ UNCHANGED <<ret, cachedSchema, client, toolVars>>

\* catch (error) { await client.query('ROLLBACK'); throw error }
Transaction_Rollback ==
    /\ op = "create_schema"
    /\ pc = "rollback"
    /\ \E ok \in BOOLEAN :
          /\ Issued(ROLLBACK, ok)
          /\ frame' = Some([frame[1] EXCEPT !.outcome =
                              Some([threw |-> IF ok THEN frame[1].error[1]
                                              ELSE ErrorOf_Statement(ROLLBACK)])])
    /\ pc' = "release"
    /\ UNCHANGED <<ret, cachedSchema, client, toolVars>>

\* finally { client.release() }
Transaction_Release ==
    /\ op = "create_schema"
    /\ pc = "release"
    /\ client' = Some([released |-> client[1].released + 1])
    /\ pc' = "settled"
    /\ UNCHANGED <<ret, db, cachedSchema, frame, toolVars>>

\* the transaction has settled: the handler returns
CreateSchema_Return ==
    /\ op = "create_schema"
    /\ pc = "settled"
    /\ ToolReturns(IF frame[1].outcome = Some([returned |-> TRUE])
                   THEN [success |-> TRUE,
                         message |-> "Schema created successfully",
                         results |-> frame[1].results,
                         warnings |-> IF Len(frame[1].errors) > 0
                                      THEN Some(frame[1].errors) ELSE Undefined]
                   ELSE [success |-> FALSE,
                         error |-> MessageOf(frame[1].outcome[1].threw),
                         results |-> frame[1].results,
                         errors |-> frame[1].errors])
    /\ UNCHANGED <<db, cachedSchema, frame, client, toolVars>>

(***************************************************************************)
(* Calls of the database tools                                             *)
(***************************************************************************)
ToolEntities ==
    {Entity(<<"C", "u", "s", "t", "o", "m", "e", "r">>, <<Attr(<<"i", "n", "t">>, <<"i", "d">>, <<"PK">>)>>),
     Entity(<<"O", "r", "d", "e", "r">>, <<Attr(<<"i", "n", "t">>, <<"c", "u", "s", "t", "o", "m", "e", "r", "_", "i", "d">>, <<"FK">>)>>),
     Entity(<<"B", "a", "d">>, <<Attr(<<"c", "o", "n", "s", "t", "r", "u", "c", "t", "o", "r", "(", "9", ")">>, <<"i", "d">>, <<>>)>>)}
ToolSchemas ==
    {[entities |-> es, relationships |-> <<>>] :
        es \in {x \in SeqsUpTo(ToolEntities, MaxTables) :
                   \A j, k \in 1..Len(x) : x[j] = x[k] => j = k}}
\* what parseERDiagram returns for the diagram of the call, if there is one
Contents ==
    {Undefined}
        \cup {Some([success |-> TRUE, schema |-> Some(sch), errors |-> Undefined]) :
                sch \in ToolSchemas}
        \cup {Some([success |-> FALSE,
                    schema |-> Some([entities |-> <<>>, relationships |-> <<>>]),
                    errors |-> Some(<<ErrorOf(2, L_junk)>>)])}

InitTools ==
    /\ pc = "call"
    /\ ParserIdle
    /\ ServiceIdle
    /\ ret = Undefined
    /\ \/ /\ op = "drop_schema"
          /\ args \in [confirm : BOOLEAN, configured : BOOLEAN, content : Contents]
       \/ /\ op = "create_schema"
          /\ args \in [dropExisting : BOOLEAN, configured : BOOLEAN, content : Contents]

NextTools ==
    \/ DropSchema_Confirm
    \/ DropSchema_Configured
    \/ DropSchema_GetSchema
    \/ DropSchema_Query
    \/ DropSchema_Return
    \/ CreateSchema_Configured
    \/ CreateSchema_GetSchema
    \/ Transaction_Connect
    \/ Transaction_Begin
    \/ Callback_Query
    \/ Transaction_Commit
    \/ Transaction_Rollback
    \/ Transaction_Release
    \/ CreateSchema_Return

SpecTools == InitTools /\ [][NextTools]_vars

\* C23: drop_schema called with confirm false sends no statement to the
\* database and does not get as far as the schema: it returns success = false
\* at its first check.
C23_NoDropWithoutConfirm ==
    (op = "drop_schema" /\ ~args.confirm) =>
        /\ db = <<>>
        /\ cachedSchema = Undefined
        /\ frame = Undefined
        /\ pc \in {"call", "returned"}
        /\ pc = "returned" =>
              /\ "success" \in DOMAIN ret[1]
              /\ ~ret[1].success

\* the call that would have dropped two tables returned without a statement
C23_Witness ==
    /\ op = "drop_schema"
    /\ pc = "returned"
    /\ ~args.confirm
    /\ args.configured
    /\ getSchema(args.content) # Undefined
    /\ Len(generateDropTables(getSchema(args.content)[1])) = 2
    /\ ~generateSchemaSQLThrows(getSchema(args.content)[1])
    /\ db = <<>>

\* the statement db[k] is one of the callback (not BEGIN, COMMIT or ROLLBACK)
IsCallbackStatement(k) == db[k].sql \notin {BEGIN, COMMIT, ROLLBACK}
\* the statement db[k] failed and its error leaves the try block: BEGIN,
\* COMMIT, or a CREATE TABLE of the callback, which rethrows it
Throws(k) ==
    /\ ~db[k].ok
    /\ \/ db[k].sql \in {BEGIN, COMMIT}
       \/ IsCallbackStatement(k) /\ frame[1].statements[k - 1].kind = "create"
\* the transaction has settled, with a client
TransactionOver == op = "create_schema" /\ client # Undefined /\ pc \in {"settled", "returned"}

\* C30: BEGIN is issued before the callback runs; COMMIT is issued only after
\* a callback that did not throw; when BEGIN, the callback or COMMIT throws,
\* ROLLBACK is issued and that error is rethrown to the caller; the client is
\* released exactly once, also when ROLLBACK throws.
C30_TransactionProtocol ==
    op = "create_schema" =>
        /\ \A k \in 1..Len(db) :
              /\ IsCallbackStatement(k) => k > 1 /\ db[1] = [sql |-> BEGIN, ok |-> TRUE]
              /\ db[k].sql = COMMIT =>
                    /\ k = Len(frame[1].statements) + 2
                    /\ \A j \in 1..(k - 1) : ~Throws(j)
        /\ client # Undefined => client[1].released <= 1
        /\ TransactionOver =>
              /\ client[1].released = 1
              /\ IF \E k \in 1..Len(db) : Throws(k)
                 THEN LET k == CHOOSE k \in 1..Len(db) : Throws(k)
                      IN  /\ Len(db) = k + 1
                          /\ db[k + 1].sql = ROLLBACK
                          /\ frame[1].outcome = Some([threw |-> ErrorOf_Statement(db[k].sql)])
                 ELSE /\ db[Len(db)] = [sql |-> COMMIT, ok |-> TRUE]
                      /\ frame[1].outcome = Some([returned |-> TRUE])

(***************************************************************************)
(* The API server module.  Calls of startApiServer and stopApiServer run   *)
(* from await to await and interleave at the awaits and at the callbacks   *)
(* of listen and close.  An http server is "binding" from app.listen until *)
(* its listening or error event, then "listening" or "failed"; close makes *)
(* a listening server "closing" and its callback makes it "closed".  All   *)
(* servers ask for the one configured port.                                *)
(***************************************************************************)
\* Most calls of startApiServer and stopApiServer in one behaviour.
MaxCalls == 3

isApiServerRunning == server # Undefined

getApiServerInfo ==
    IF server = Undefined
    THEN [running |-> FALSE]
    ELSE [running |-> TRUE, apiType |-> args.apiType, endpoints |-> currentEndpoints]

\* the endpoints that createRestRouter reports, as one entry
RestEndpoints == <<"rest endpoints">>

\* the port is held by another program or by a listening server of the module
PortInUse ==
    \/ args.portTaken
    \/ \E h \in 1..Len(httpServers) : httpServers[h] = "listening"

\* a call has settled
Settle(c, pcNew, value) ==
    calls' = [calls EXCEPT ![c] = [@ EXCEPT !.pc = pcNew, !.result = Some(value)]]

\* server = app.listen(port, host, callback) in call c
Listen(c, callsNow) ==
    /\ httpServers' = Append(httpServers, "binding")
    /\ server' = Some(Len(httpServers) + 1)
    /\ calls' = [callsNow EXCEPT ![c] = [@ EXCEPT !.pc = "listen",
                                                  !.http = Some(Len(httpServers) + 1)]]

apiVars == <<pc, op, args, ret, parserVars, db, cachedSchema, frame, client>>

\* startApiServer is called and runs to its first await
StartApiServer_Call ==
    /\ op = "apiServer"
    /\ Len(calls) < MaxCalls
    /\ LET c == Len(calls) + 1
           call == [kind |-> "start", pc |-> "call", http |-> Undefined, result |-> Undefined]
       IN  IF server # Undefined
           THEN /\ calls' = Append(calls, [call EXCEPT !.pc = "resolved",
                                                       !.result = Some(getApiServerInfo)])
                /\ UNCHANGED <<server, currentEndpoints, httpServers>>
           ELSE /\ currentEndpoints' =
                      IF args.apiType \in {"rest", "both"} THEN RestEndpoints ELSE <<>>
                /\ IF args.apiType \in {"graphql", "both"}
                   THEN /\ calls' = Append(calls, [call EXCEPT !.pc = "apollo"])
                        /\ UNCHANGED <<server, httpServers>>
                   ELSE Listen(c, Append(calls, call))
    /\ UNCHANGED apiVars

\* await apolloServer.start() is over: the call goes on to listen, or rejects
StartApiServer_ApolloStarted ==
    /\ op = "apiServer"
    /\ \E c \in 1..Len(calls) :
          /\ calls[c].pc = "apollo"
          /\ \E ok \in BOOLEAN :
                IF ok
                THEN Listen(c, calls)
                ELSE /\ Settle(c, "rejected", "apolloServer.start failed")
                     /\ UNCHANGED <<server, httpServers>>
    /\ UNCHANGED <<currentEndpoints, apiVars>>

\* the listening callback of an http server: resolve(getApiServerInfo())
HttpServer_Listening ==
    /\ op = "apiServer"
    /\ \E c \in 1..Len(calls) :
          /\ calls[c].pc = "listen"
          /\ httpServers[calls[c].http[1]] = "binding"
          /\ ~PortInUse
          /\ httpServers' = [httpServers EXCEPT ![calls[c].http[1]] = "listening"]
          /\ Settle(c, "resolved", getApiServerInfo)
    /\ UNCHANGED <<server, currentEndpoints, apiVars>>


\* the error event of an http server: reject(err)
HttpServer_Error ==
    /\ op = "apiServer"
    /\ \E c \in 1..Len(calls) :
          /\ calls[c].pc = "listen"
          /\ httpServers[calls[c].http[1]] = "binding"
          /\ PortInUse
          /\ httpServers' = [httpServers EXCEPT ![calls[c].http[1]] = "failed"]
          /\ Settle(c, "rejected", "listen EADDRINUSE")
    /\ UNCHANGED <<server, currentEndpoints, apiVars>>

\* stopApiServer is called: it returns at once or calls server.close(callback)
StopApiServer_Call ==
    /\ op = "apiServer"
    /\ Len(calls) < MaxCalls
    /\ LET call == [kind |-> "stop", pc |-> "call", http |-> server, result |-> Undefined]
       IN  IF server = Undefined
           THEN /\ calls' = Append(calls, [call EXCEPT !.pc = "resolved",
                                                       !.result = Some([stopped |-> FALSE])])
                /\ UNCHANGED httpServers
           ELSE /\ calls' = Append(calls, [call EXCEPT !.pc = "closing"])
                /\ httpServers' =
                      IF httpServers[server[1]] = "listening"
                      THEN [httpServers EXCEPT ![server[1]] = "closing"]
                      ELSE httpServers
    /\ UNCHANGED <<server, currentEndpoints, apiVars>>

\* the callback of server.close, called with or without an error
StopApiServer_Closed ==
    /\ op = "apiServer"
    /\ \E c \in 1..Len(calls) :
          /\ calls[c].kind = "stop"
          /\ calls[c].pc = "closing"
          /\ httpServers' =
                IF httpServers[calls[c].http[1]] = "closing"
                THEN [httpServers EXCEPT ![calls[c].http[1]] = "closed"]
                ELSE httpServers
          /\ server' = Undefined
          /\ currentEndpoints' = <<>>
          /\ Settle(c, "resolved", [stopped |-> TRUE])
    /\ UNCHANGED apiVars

InitServer ==
    /\ pc = "call"
    /\ ParserIdle
    /\ ServiceIdle
    /\ ret = Undefined
    /\ op = "apiServer"
    /\ args \in [apiType : {"rest", "graphql", "both"}, portTaken : BOOLEAN]

NextServer ==
    \/ StartApiServer_Call
    \/ StartApiServer_ApolloStarted
    \/ HttpServer_Listening
    \/ HttpServer_Error
    \/ StopApiServer_Call
    \/ StopApiServer_Closed

SpecServer == InitServer /\ [][NextServer]_vars

\* a start call that was rejected because its http server failed to listen
ListenRejected(c) ==
    /\ calls[c].kind = "start"
    /\ calls[c].pc = "rejected"
    /\ calls[c].http # Undefined

\* C28: once startApiServer has rejected because its http server failed to
\* listen, the module's server variable no longer holds that server, so that
\* isApiServerRunning() and getApiServerInfo().running are false on its
\* account and a later startApiServer does not return the failed server's info.
C28_FailedListenLeavesNotRunning ==
    \A c \in 1..Len(calls) : ListenRejected(c) => server # calls[c].http

Listening == {h \in 1..Len(httpServers) : httpServers[h] = "listening"}

StartInFlight ==
    \E c \in 1..Len(calls) : calls[c].kind = "start" /\ calls[c].pc \in {"apollo", "listen"}

\* the step in which call c of stopApiServer resolves with stopped = true
StopResolves(c) ==
    /\ c \in 1..Len(calls)
    /\ calls[c].kind = "stop"
    /\ calls[c].pc = "closing"
    /\ calls'[c].pc = "resolved"
    /\ calls'[c].result = Some([stopped |-> TRUE])

\* C29: in every interleaving of startApiServer and stopApiServer calls at most
\* one http server of the module is listening and the server variable refers
\* to it; and when a stopApiServer call resolves with stopped = true while no
\* start is in flight, no http server of the module is listening any more.
C29_OneListeningServer ==
    /\ [](/\ Cardinality(Listening) <= 1
          /\ \A h \in Listening : server = Some(h))
    /\ [][\A c \in 1..MaxCalls :
             StopResolves(c) /\ ~StartInFlight' => Listening' = {}]_vars

====
